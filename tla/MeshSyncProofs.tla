--------------------------- MODULE MeshSyncProofs ---------------------------
(***************************************************************************)
(* Proofs about MeshSync, for any set of links, agents and requests and    *)
(* any number of faults.                                                   *)
(*                                                                         *)
(* No agent's stored configuration grants a network its whitelist does not *)
(* allow, once every request has ended.  While requests run this is not    *)
(* so, and the invariant says why it will be: a request that has changed   *)
(* the store or a row still has its sync before it (Pending), or the sync  *)
(* that runs has the row's present binding and has yet to come to it       *)
(* (Syncing).  That a sync is not overtaken rests on the write lock.       *)
(*                                                                         *)
(* And without faults the metadata store, wg0.conf and the kernel agree    *)
(* once every request has ended.  Where they differ before that, some      *)
(* request still has the step before it that makes them agree (LiveDue,    *)
(* ConfDue, RoutesDue); the one step that writes the kernel outside the    *)
(* lock, the removal of a peer, is of a key that nobody else works on.     *)
(***************************************************************************)
EXTENDS MeshSync, TLAPS

\* Requests and rows are records with the fields the handlers use.
ReqFields == {"pc", "kind", "in", "old", "ops", "todo"}
RowFields == {"link", "acl", "allowed", "text", "gone"}
ReqOK == DOMAIN req = AllProcs /\ \A p \in AllProcs : DOMAIN req[p] = ReqFields
RowOK == DOMAIN row = Agents /\ \A a \in Agents : DOMAIN row[a] = RowFields

\* The request is inside its section of withWriteLock.
Inside(r) ==
    \/ r.pc \in {"hublive", "agentone", "createlive", "createmeta"}
    \/ r.kind = "create" /\ r.pc \in {"hub", "agents"}
\* createPeer's own steps, and the syncs it runs under the same hold of the lock.
KindOK(r) ==
    r.kind = "create" =>
        r.pc \in {"idle", "create", "createlive", "createmeta", "hub", "hublive", "agents", "agentone"}
LockOK ==
    /\ lock \in Seq(AllProcs)
    /\ \A p \in AllProcs : Inside(req[p]) => HasLock(p)
    /\ \A p \in AllProcs : KindOK(req[p])

\* A sync of the agents is still to come.
PendingPcs == {"status", "cascade", "hub", "hublive", "agents", "delagents"}
Pending(r) == r.pc \in PendingPcs
\* A sync runs and has not come to the agent yet.
Syncing(r, a) == r.pc = "agentone" /\ a \in r.todo

\* The agent's configuration grants what its whitelist allows, or is not the hub's to write.
Fits(a) ==
    Syncable(store, row[a]) => row[a].text \subseteq computeOtherSiteNets(store, row[a])
\* The row is bound as it was when the sync read it.
SameBinding(old, new) ==
    /\ old.link = new.link /\ old.acl = new.acl /\ old.allowed = new.allowed
    /\ new.text \in {old.text, {}}

Granted ==
    \/ lost
    \/ \E p \in AllProcs : Pending(req[p])
    \/ \A a \in Agents :
          /\ Fits(a) \/ \E p \in AllProcs : Syncing(req[p], a)
          /\ \A p \in AllProcs : Syncing(req[p], a) => SameBinding(req[p].old[a], row[a])

IInv == ReqOK /\ RowOK /\ LockOK /\ Granted

-----------------------------------------------------------------------------
(* What a step of one process may do *)

\* The step of p changes p's request only.
Alone(p) == \A q \in AllProcs \ {p} : req'[q] = req[q]

\* The lock: p enters or goes on inside, asks for it, leaves, or leaves and asks again.
LockStep(p) ==
    /\ KindOK(req'[p])
    /\ \/ lock' = lock /\ (Inside(req'[p]) => HasLock(p))
       \/ lock' = Append(lock, p) /\ ~Inside(req'[p])
       \/ HasLock(p) /\ lock' = Tail(lock) /\ ~Inside(req'[p])
       \/ HasLock(p) /\ lock' = Append(Tail(lock), p) /\ ~Inside(req'[p])

\* Store and rows: a fault is counted, a sync is to come, or nothing is changed.
SyncStep(p) ==
    \/ lost'
    \/ Pending(req'[p])
    \/ /\ UNCHANGED <<store, row, lost>>
       /\ {req[p].pc, req'[p].pc} \cap (PendingPcs \cup {"agentone"}) = {}

\* Steps of this kind keep the lock's order.
LEMMA LockKept ==
    ASSUME LockOK, NEW p \in AllProcs, Alone(p), LockStep(p)
    PROVE  LockOK'
<1> USE DEF LockStep
<1>1. CASE lock' = lock /\ (Inside(req'[p]) => HasLock(p))
  BY <1>1 DEF LockOK, Alone, HasLock
<1>2. CASE lock' = Append(lock, p) /\ ~Inside(req'[p])
  <2>1. lock' \in Seq(AllProcs) /\ lock' # <<>> /\ (lock # <<>> => Head(lock') = Head(lock))
    BY <1>2 DEF LockOK
  <2> QED
    BY <1>2, <2>1 DEF LockOK, Alone, HasLock
<1>3. CASE HasLock(p) /\ ~Inside(req'[p]) /\ lock' \in {Tail(lock), Append(Tail(lock), p)}
  <2>1. lock' \in Seq(AllProcs)
    BY <1>3 DEF LockOK, HasLock
  <2>2. ASSUME NEW q \in AllProcs, Inside(req'[q]) PROVE FALSE
    BY <1>3, <2>2 DEF LockOK, Alone, HasLock
  <2> QED
    BY <2>1, <2>2 DEF LockOK, Alone
<1> QED
  BY <1>1, <1>2, <1>3 DEF LockStep

\* Steps of this kind leave no agent without the sync it needs.
LEMMA GrantedKept ==
    ASSUME ReqOK, Granted, NEW p \in AllProcs, Alone(p), SyncStep(p)
    PROVE  Granted'
<1>1. CASE lost'
  BY <1>1 DEF Granted
<1>2. CASE Pending(req'[p])
  BY <1>2 DEF Granted
<1>3. CASE /\ UNCHANGED <<store, row, lost>>
           /\ {req[p].pc, req'[p].pc} \cap (PendingPcs \cup {"agentone"}) = {}
  <2>1. ASSUME NEW q \in AllProcs
        PROVE  /\ Pending(req'[q]) <=> Pending(req[q])
               /\ \A a : Syncing(req'[q], a) <=> Syncing(req[q], a)
               /\ req[q].pc = "agentone" => req'[q] = req[q]
    BY <1>3 DEF Alone, Pending, Syncing
  <2>2. ASSUME NEW a \in Agents PROVE Fits(a)' <=> Fits(a)
    BY <1>3 DEF Fits
  <2> QED
    BY <1>3, <2>1, <2>2 DEF Granted, Syncing
<1> QED
  BY <1>1, <1>2, <1>3 DEF SyncStep

-----------------------------------------------------------------------------
(* How the handlers change requests *)

\* A new request is a record like all others.
LEMMA Begins ==
    ASSUME ReqOK, NEW p \in AllProcs, NEW r, Begin(p, r), DOMAIN r = ReqFields
    PROVE  ReqOK' /\ Alone(p) /\ req'[p] = r /\ req[p].pc = "idle"
BY DEF ReqOK, Begin, Alone, At

\* A request that ends is idle.
LEMMA Finishes ==
    ASSUME ReqOK, NEW p \in AllProcs, Finish(p)
    PROVE  ReqOK' /\ Alone(p) /\ req'[p].pc = "idle" /\ ~Inside(req'[p])
BY DEF ReqOK, Finish, Idle, Alone, Inside, ReqFields

\* What every step of a process keeps: the records and the lock's order.
Kept(p) == ReqOK' /\ RowOK' /\ Alone(p) /\ LockStep(p)

-----------------------------------------------------------------------------
(* Requests that come in *)

\* A request is read and checked before it changes anything.
LEMMA Requested ==
    ASSUME IInv, NEW p \in Procs, Request(p)
    PROVE  Kept(p) /\ SyncStep(p)
<1> USE DEF IInv, AllProcs, hub
<1>1. ASSUME NEW r, Begin(p, r), DOMAIN r = ReqFields, KindOK(r), ~Inside(r),
             r.pc \notin PendingPcs \cup {"agentone"},
             lock' = lock \/ lock' = Append(lock, p), UNCHANGED <<store, row, lost>>
      PROVE  Kept(p) /\ SyncStep(p)
  <2>1. ReqOK' /\ Alone(p) /\ req'[p] = r /\ req[p].pc = "idle"
    BY <1>1, Begins
  <2>2. RowOK'
    BY <1>1 DEF RowOK
  <2> QED
    BY <1>1, <2>1, <2>2 DEF Kept, LockStep, LockOK, KindOK, SyncStep, PendingPcs
<1>2. ASSUME NEW k \in MetadataKinds, NEW body, MetadataRequest(p, k, body) PROVE Kept(p) /\ SyncStep(p)
  <2> DEFINE r == [Idle EXCEPT !.pc = "write", !.kind = k, !.in = mergeBackupIntoLive(body),
                               !.old = NamesOf(store)]
  <2>1. DOMAIN r = ReqFields /\ r.pc = "write" /\ r.kind = k /\ k # "create"
    BY DEF Idle, ReqFields, MetadataKinds
  <2>2. Begin(p, r) /\ UNCHANGED <<store, row, lock, lost>>
    BY <1>2 DEF MetadataRequest
  <2> QED
    BY <2>1, <2>2, <1>1 DEF Inside, KindOK, PendingPcs
<1>3. ASSUME NEW l, NEW m, Create(p, l, m) PROVE Kept(p) /\ SyncStep(p)
  <2> DEFINE r == [Idle EXCEPT !.pc = "create", !.kind = "create", !.in = [link |-> l, meta |-> m]]
  <2>1. DOMAIN r = ReqFields /\ r.pc = "create" /\ r.kind = "create"
    BY DEF Idle, ReqFields
  <2>2. Begin(p, r) /\ UNCHANGED <<store, row, lost>> /\ lock' = Append(lock, p)
    BY <1>3 DEF Create, Queue
  <2> QED
    BY <2>1, <2>2, <1>1 DEF Inside, KindOK, PendingPcs
<1>4. ASSUME NEW l, NEW c, Delete(p, l, c) PROVE Kept(p) /\ SyncStep(p)
  <2> DEFINE r == [Idle EXCEPT !.pc = "delconf", !.kind = "delete", !.old = boundName(l),
                               !.in = [link |-> l, cascade |-> c],
                               !.todo = planBoundAgentCascade(boundName(l))]
  <2>1. DOMAIN r = ReqFields /\ r.pc = "delconf" /\ r.kind = "delete"
    BY DEF Idle, ReqFields
  <2>2. Begin(p, r) /\ UNCHANGED <<store, row, lock, lost>>
    BY <1>4 DEF Delete
  <2> QED
    BY <2>1, <2>2, <1>1 DEF Inside, KindOK, PendingPcs
<1>5. ASSUME NEW u, UpdateRead(p, u) PROVE Kept(p) /\ SyncStep(p)
  <2> DEFINE r == [Idle EXCEPT !.pc = "update", !.kind = "update", !.in = u, !.old = row[u.agent]]
  <2>1. DOMAIN r = ReqFields /\ r.pc = "update" /\ r.kind = "update"
    BY DEF Idle, ReqFields
  <2>2. Begin(p, r) /\ UNCHANGED <<store, row, lock, lost>>
    BY <1>5 DEF UpdateRead
  <2> QED
    BY <2>1, <2>2, <1>1 DEF Inside, KindOK, PendingPcs
<1>6. ASSUME NEW a, NEW nets, UploadRead(p, a, nets) PROVE Kept(p) /\ SyncStep(p)
  <2> DEFINE r == [Idle EXCEPT !.pc = "upload", !.kind = "upload", !.old = row[a],
                               !.in = [agent |-> a, nets |-> nets]]
  <2>1. DOMAIN r = ReqFields /\ r.pc = "upload" /\ r.kind = "upload"
    BY DEF Idle, ReqFields
  <2>2. Begin(p, r) /\ UNCHANGED <<store, row, lock, lost>>
    BY <1>6 DEF UploadRead
  <2> QED
    BY <2>1, <2>2, <1>1 DEF Inside, KindOK, PendingPcs
<1> QED
  BY <1>2, <1>3, <1>4, <1>5, <1>6 DEF Request

-----------------------------------------------------------------------------
(* The metadata *)

\* The write changes the store with its syncs still to come, or nothing.
LEMMA Written ==
    ASSUME IInv, NEW p \in AllProcs, Enqueue(p) \/ PatchWrite(p) \/ PeerStatus(p)
    PROVE  Kept(p) /\ SyncStep(p)
<1> USE DEF IInv, hub, Kept, RowOK, At
<1>1. CASE Enqueue(p)
  BY <1>1 DEF Enqueue, Queue, Alone, LockStep, LockOK, KindOK, SyncStep, Inside, PendingPcs, ReqOK
<1>2. CASE PatchWrite(p)
  <2>1. /\ req[p].pc = "write" /\ HasLock(p) /\ lock' = Tail(lock) /\ UNCHANGED <<row, lost>>
        /\ \/ Finish(p) /\ UNCHANGED store
           \/ Goto(p, "status")
           \/ \E ops : req' = [req EXCEPT ![p].pc = "cascade", ![p].ops = ops]
    BY <1>2 DEF PatchWrite, Release
  <2>2. CASE Finish(p) /\ UNCHANGED store
    BY <2>1, <2>2, Finishes DEF LockStep, LockOK, KindOK, SyncStep, PendingPcs
  <2>3. CASE Goto(p, "status") \/ \E ops : req' = [req EXCEPT ![p].pc = "cascade", ![p].ops = ops]
    <3>1. ReqOK' /\ Alone(p) /\ req'[p].pc \in {"status", "cascade"} /\ req'[p].kind = req[p].kind
      BY <2>3 DEF Goto, ReqOK, ReqFields, Alone
    <3> QED
      BY <2>1, <3>1 DEF LockStep, LockOK, KindOK, SyncStep, Inside, Pending, PendingPcs
  <2> QED
    BY <2>1, <2>2, <2>3
<1>3. CASE PeerStatus(p)
  <2>1. /\ req[p].pc = "status" /\ UNCHANGED <<row, lock>>
        /\ \E ops : req' = [req EXCEPT ![p].pc = "cascade", ![p].ops = ops]
    BY <1>3 DEF PeerStatus
  <2>2. ReqOK' /\ Alone(p) /\ req'[p].pc = "cascade" /\ req'[p].kind = req[p].kind
    BY <2>1 DEF ReqOK, ReqFields, Alone
  <2> QED
    BY <2>1, <2>2 DEF LockStep, LockOK, KindOK, SyncStep, Inside, Pending, PendingPcs
<1> QED
  BY <1>1, <1>2, <1>3

\* A rename moves bindings, with the sync still to come.
LEMMA Renamed ==
    ASSUME IInv, NEW p \in AllProcs, CascadeRename(p) \/ CascadeDone(p)
    PROVE  Kept(p) /\ SyncStep(p)
<1> USE DEF IInv, hub, Kept, At
<1>1. CASE CascadeRename(p)
  <2>1. ReqOK' /\ Alone(p) /\ req'[p].pc = "cascade" /\ req'[p].kind = req[p].kind
    BY <1>1 DEF CascadeRename, ReqOK, ReqFields, Alone
  <2>2. ASSUME NEW op, NEW some, row' = Rebound(op, some) PROVE RowOK'
    BY <2>2 DEF Rebound, RowOK, RowFields
  <2>3. RowOK' /\ lock' = lock /\ req[p].pc = "cascade"
    BY <1>1, <2>2 DEF CascadeRename
  <2> QED
    BY <2>1, <2>3 DEF LockStep, LockOK, KindOK, SyncStep, Inside, Pending, PendingPcs
<1>2. CASE CascadeDone(p)
  <2>1. /\ req[p].pc = "cascade" /\ lock' = Append(lock, p) /\ UNCHANGED row
        /\ req' = [req EXCEPT ![p].pc = "hub", ![p].todo = {}]
    BY <1>2 DEF CascadeDone, Queue
  <2>2. ReqOK' /\ Alone(p) /\ req'[p].pc = "hub" /\ req'[p].kind = req[p].kind
    BY <2>1 DEF ReqOK, ReqFields, Alone
  <2> QED
    BY <2>1, <2>2 DEF LockStep, LockOK, KindOK, SyncStep, Inside, Pending, PendingPcs, RowOK
<1> QED
  BY <1>1, <1>2

-----------------------------------------------------------------------------
(* The hub's conf and kernel, createPeer and deletePeer *)

\* The sync of the hub changes neither store nor rows, and the agents' sync follows.
LEMMA HubSynced ==
    ASSUME IInv, NEW p \in AllProcs, SyncHubConf(p) \/ SyncHubLive(p)
    PROVE  Kept(p) /\ SyncStep(p)
<1> USE DEF IInv, Kept, At
<1>1. /\ req[p].pc \in {"hub", "hublive"} /\ HasLock(p) /\ UNCHANGED row
      /\ \/ lock' = lock /\ \E todo : req' = [req EXCEPT ![p].pc = "hublive", ![p].todo = todo]
         \/ /\ lock' = IF req[p].kind = "create" THEN lock ELSE Append(Tail(lock), p)
            /\ \/ req' = [req EXCEPT ![p].pc = "agents"]
               \/ req' = [req EXCEPT ![p].pc = "agents", ![p].todo = {}]
  BY DEF SyncHubConf, SyncHubLive, Requeue, Goto
<1>2. /\ ReqOK' /\ Alone(p) /\ req'[p].kind = req[p].kind
      /\ \/ lock' = lock /\ req'[p].pc = "hublive"
         \/ /\ lock' = IF req[p].kind = "create" THEN lock ELSE Append(Tail(lock), p)
            /\ req'[p].pc = "agents"
  BY <1>1 DEF ReqOK, ReqFields, Alone
<1> QED
  BY <1>1, <1>2 DEF LockStep, KindOK, SyncStep, Inside, Pending, PendingPcs, RowOK

\* createPeer holds the lock until its own sync has begun.
LEMMA Created ==
    ASSUME IInv, NEW p \in AllProcs, CreateConf(p) \/ CreateLive(p) \/ CreateMeta(p)
    PROVE  Kept(p) /\ SyncStep(p)
<1> USE DEF IInv, Kept, At
<1>1. CASE CreateConf(p)
  <2>1. /\ req[p].pc = "create" /\ HasLock(p) /\ UNCHANGED <<store, row, lost>>
        /\ \/ Finish(p) /\ lock' = Tail(lock)
           \/ req' = [req EXCEPT ![p].pc = "createlive"] /\ lock' = lock
    BY <1>1 DEF CreateConf, Release, Goto
  <2>2. CASE Finish(p) /\ lock' = Tail(lock)
    BY <2>1, <2>2, Finishes DEF LockStep, KindOK, SyncStep, PendingPcs, RowOK
  <2>3. CASE req' = [req EXCEPT ![p].pc = "createlive"] /\ lock' = lock
    <3>1. ReqOK' /\ Alone(p) /\ req'[p].pc = "createlive"
      BY <2>3 DEF ReqOK, ReqFields, Alone
    <3> QED
      BY <2>1, <2>3, <3>1 DEF LockStep, KindOK, SyncStep, PendingPcs, RowOK
  <2> QED
    BY <2>1, <2>2, <2>3
<1>2. CASE CreateLive(p)
  <2>1. /\ req[p].pc = "createlive" /\ UNCHANGED <<store, row>> /\ HasLock(p)
        /\ \/ Finish(p) /\ lock' = Tail(lock) /\ lost'
           \/ req' = [req EXCEPT ![p].pc = "createmeta"] /\ UNCHANGED <<lock, lost>>
    BY <1>2 DEF CreateLive, Release, Goto, NoFault, Fault, LockOK, Inside
  <2>2. CASE Finish(p) /\ lock' = Tail(lock) /\ lost'
    BY <2>1, <2>2, Finishes DEF LockStep, KindOK, SyncStep, PendingPcs, RowOK
  <2>3. CASE req' = [req EXCEPT ![p].pc = "createmeta"] /\ UNCHANGED <<lock, lost>>
    <3>1. ReqOK' /\ Alone(p) /\ req'[p].pc = "createmeta"
      BY <2>3 DEF ReqOK, ReqFields, Alone
    <3> QED
      BY <2>1, <2>3, <3>1 DEF LockStep, KindOK, SyncStep, PendingPcs, RowOK
  <2> QED
    BY <2>1, <2>2, <2>3
<1>3. CASE CreateMeta(p)
  <2>1. /\ req[p].pc = "createmeta" /\ UNCHANGED <<row, lock>> /\ HasLock(p)
        /\ req' \in {[req EXCEPT ![p].pc = "agents"], [req EXCEPT ![p].pc = "hub"]}
    BY <1>3 DEF CreateMeta, Goto, LockOK, Inside
  <2>2. ReqOK' /\ Alone(p) /\ req'[p].pc \in {"agents", "hub"}
    BY <2>1 DEF ReqOK, ReqFields, Alone
  <2> QED
    BY <2>1, <2>2 DEF LockStep, KindOK, SyncStep, Pending, PendingPcs, RowOK
<1> QED
  BY <1>1, <1>2, <1>3

\* deletePeer: once the metadata is gone, a sync is to come.
LEMMA Deleted ==
    ASSUME IInv, NEW p \in AllProcs,
           DeleteConf(p) \/ DeleteLive(p) \/ DeleteMeta(p) \/ DeleteAgents(p)
    PROVE  Kept(p) /\ SyncStep(p)
<1> USE DEF IInv, Kept, At
<1>1. CASE DeleteConf(p)
  <2>1. /\ req[p].pc = "delconf" /\ HasLock(p) /\ lock' = Tail(lock) /\ UNCHANGED <<store, row>>
        /\ UNCHANGED lost \/ lost'
        /\ \/ Finish(p)
           \/ \E todo : req' = [req EXCEPT ![p].pc = "dellive", ![p].todo = todo]
    BY <1>1 DEF DeleteConf, Release, NoFault, Fault
  <2>2. CASE Finish(p)
    BY <2>1, <2>2, Finishes DEF LockStep, KindOK, SyncStep, PendingPcs, RowOK
  <2>3. CASE \E todo : req' = [req EXCEPT ![p].pc = "dellive", ![p].todo = todo]
    <3>1. ReqOK' /\ Alone(p) /\ req'[p].pc = "dellive" /\ req'[p].kind = req[p].kind
      BY <2>3 DEF ReqOK, ReqFields, Alone
    <3> QED
      BY <2>1, <3>1 DEF LockOK, LockStep, KindOK, Inside, SyncStep, PendingPcs, RowOK
  <2> QED
    BY <2>1, <2>2, <2>3
<1>2. CASE DeleteLive(p)
  <2>1. /\ req[p].pc = "dellive" /\ lock' = Append(lock, p) /\ UNCHANGED <<store, row>>
        /\ UNCHANGED lost \/ lost'
        /\ req' = [req EXCEPT ![p].pc = "delmeta"]
    BY <1>2 DEF DeleteLive, Queue, Goto, NoFault, Fault
  <2>2. ReqOK' /\ Alone(p) /\ req'[p].pc = "delmeta" /\ req'[p].kind = req[p].kind
    BY <2>1 DEF ReqOK, ReqFields, Alone
  <2> QED
    BY <2>1, <2>2 DEF LockOK, LockStep, KindOK, Inside, SyncStep, PendingPcs, RowOK
<1>3. CASE DeleteMeta(p)
  <2>1. /\ req[p].pc = "delmeta" /\ HasLock(p) /\ lock' = Tail(lock) /\ UNCHANGED row
        /\ req' = [req EXCEPT ![p].pc = "delagents"]
    BY <1>3 DEF DeleteMeta, Release, Goto
  <2>2. ReqOK' /\ Alone(p) /\ req'[p].pc = "delagents" /\ req'[p].kind = req[p].kind
    BY <2>1 DEF ReqOK, ReqFields, Alone
  <2> QED
    BY <2>1, <2>2 DEF LockOK, LockStep, KindOK, Inside, SyncStep, Pending, PendingPcs, RowOK
<1>4. CASE DeleteAgents(p)
  <2>1. /\ req[p].pc = "delagents" /\ lock' = Append(lock, p)
        /\ req' = [req EXCEPT ![p].pc = "hub", ![p].todo = {}]
    BY <1>4 DEF DeleteAgents, Queue
  <2>2. ReqOK' /\ Alone(p) /\ req'[p].pc = "hub" /\ req'[p].kind = req[p].kind
    BY <2>1 DEF ReqOK, ReqFields, Alone
  <2>3. RowOK'
    BY <1>4 DEF DeleteAgents, RowOK, RowFields
  <2> QED
    BY <2>1, <2>2, <2>3 DEF LockOK, LockStep, KindOK, Inside, SyncStep, Pending, PendingPcs
<1> QED
  BY <1>1, <1>2, <1>3, <1>4

\* An agent's row is patched with its sync still to come.
LEMMA Updated ==
    ASSUME IInv, NEW p \in AllProcs, UpdatePatch(p)
    PROVE  Kept(p) /\ SyncStep(p)
<1> USE DEF IInv, Kept, At
<1>1. /\ req[p].pc = "update" /\ lock' = Append(lock, p)
      /\ req' = [req EXCEPT ![p].pc = "agents"]
  BY DEF UpdatePatch, Queue, Goto
<1>2. ReqOK' /\ Alone(p) /\ req'[p].pc = "agents" /\ req'[p].kind = req[p].kind
  BY <1>1 DEF ReqOK, ReqFields, Alone
<1>3. RowOK'
  BY DEF UpdatePatch, RowOK, RowFields
<1> QED
  BY <1>1, <1>2, <1>3 DEF LockOK, LockStep, KindOK, Inside, SyncStep, Pending, PendingPcs

-----------------------------------------------------------------------------
(* The steps that need an argument of their own *)

\* An upload is followed by a sync, or leaves the tunnel's own networks only.
LEMMA Uploaded ==
    ASSUME IInv, NEW p \in AllProcs, UploadPatch(p)
    PROVE  Kept(p) /\ Granted'
<1> USE DEF IInv, Kept, At
<1>1. req[p].pc = "upload" /\ RowOK'
  BY DEF UploadPatch, RowOK, RowFields
<1>2. CASE req[p].old.link # None
  <2>1. lock' = Append(lock, p) /\ req' = [req EXCEPT ![p].pc = "agents"]
    BY <1>2 DEF UploadPatch, Queue, Goto
  <2>2. ReqOK' /\ Alone(p) /\ req'[p].pc = "agents" /\ req'[p].kind = req[p].kind
    BY <2>1 DEF ReqOK, ReqFields, Alone
  <2>3. LockStep(p) /\ SyncStep(p)
    BY <1>1, <2>1, <2>2 DEF LockOK, LockStep, KindOK, Inside, SyncStep, Pending, PendingPcs
  <2> QED
    BY <1>1, <2>2, <2>3, GrantedKept
<1>3. CASE req[p].old.link = None
  <2> DEFINE g == req[p].in.agent
  <2>1. /\ Finish(p) /\ UNCHANGED <<lock, store, lost>>
        /\ row' = [row EXCEPT ![g].text = {}]
    BY <1>3 DEF UploadPatch, hub, stripToTunnelOnly
  <2>2. ReqOK' /\ Alone(p) /\ req'[p].pc = "idle" /\ ~Inside(req'[p])
    BY <2>1, Finishes
  <2>3. ASSUME NEW q \in AllProcs
        PROVE  /\ Pending(req'[q]) <=> Pending(req[q])
               /\ \A a : Syncing(req'[q], a) <=> Syncing(req[q], a)
               /\ req[q].pc = "agentone" => req'[q] = req[q]
    BY <1>1, <2>2 DEF Alone, Pending, PendingPcs, Syncing
  <2>4. ASSUME NEW a \in Agents
        PROVE  /\ row'[a].link = row[a].link /\ row'[a].acl = row[a].acl
               /\ row'[a].allowed = row[a].allowed
               /\ row'[a] = row[a] \/ row'[a].text = {}
    BY <2>1 DEF RowOK, RowFields
  <2>5. ASSUME NEW a \in Agents, Fits(a) PROVE Fits(a)'
    <3>1. CASE row'[a] = row[a]
      BY <2>1, <2>5, <3>1 DEF Fits
    <3>2. CASE row'[a].text = {}
      BY <3>2 DEF Fits
    <3> QED
      BY <2>4, <3>1, <3>2
  <2>6. ASSUME NEW a \in Agents, NEW old, SameBinding(old, row[a]) PROVE SameBinding(old, row'[a])
    BY <2>4, <2>6 DEF SameBinding
  <2>7. Granted'
    <3>1. CASE lost \/ \E q \in AllProcs : Pending(req[q])
      BY <2>1, <2>3, <3>1 DEF Granted
    <3>2. CASE ~lost /\ ~\E q \in AllProcs : Pending(req[q])
      <4> SUFFICES ASSUME NEW a \in Agents
                   PROVE  /\ Fits(a)' \/ \E q \in AllProcs : Syncing(req'[q], a)
                          /\ \A q \in AllProcs : Syncing(req'[q], a) => SameBinding(req'[q].old[a], row'[a])
        BY DEF Granted
      <4>1. /\ Fits(a) \/ \E q \in AllProcs : Syncing(req[q], a)
            /\ \A q \in AllProcs : Syncing(req[q], a) => SameBinding(req[q].old[a], row[a])
        BY <3>2 DEF Granted
      <4> QED
        BY <4>1, <2>3, <2>5, <2>6 DEF Syncing
    <3> QED
      BY <3>1, <3>2
  <2>8. LockStep(p)
    BY <2>1, <2>2 DEF LockStep, KindOK
  <2> QED
    BY <1>1, <2>2, <2>7, <2>8
<1> QED
  BY <1>2, <1>3

\* A sync begins with the rows as they are, alone.
LEMMA SyncBegins ==
    ASSUME IInv, NEW p \in AllProcs, SyncRead(p)
    PROVE  Kept(p) /\ Granted'
<1> USE DEF IInv, Kept, At
<1>1. /\ req[p].pc = "agents" /\ HasLock(p) /\ UNCHANGED <<store, row, lock>>
      /\ req' = [req EXCEPT ![p].pc = "agentone", ![p].old = row,
                            ![p].todo = {a \in Agents : Syncable(store, row[a])}]
  BY DEF SyncRead, hub
<1>2. /\ ReqOK' /\ Alone(p) /\ req'[p].pc = "agentone" /\ req'[p].kind = req[p].kind
      /\ req'[p].old = row /\ req'[p].todo = {a \in Agents : Syncable(store, row[a])}
  BY <1>1 DEF ReqOK, ReqFields, Alone
<1>3. LockStep(p) /\ RowOK'
  BY <1>1, <1>2 DEF LockStep, KindOK, RowOK
<1>4. ASSUME NEW q \in AllProcs, req'[q].pc = "agentone" PROVE q = p
  BY <1>1, <1>2, <1>4 DEF LockOK, HasLock, Inside, Alone
<1>5. ASSUME NEW a \in Agents
      PROVE  /\ Fits(a)' \/ \E q \in AllProcs : Syncing(req'[q], a)
             /\ \A q \in AllProcs : Syncing(req'[q], a) => SameBinding(req'[q].old[a], row'[a])
  <2>1. CASE Syncable(store, row[a])
    <3>1. Syncing(req'[p], a)
      BY <1>2, <2>1 DEF Syncing
    <3> QED
      BY <3>1, <1>1, <1>2, <1>4 DEF Syncing, SameBinding
  <2>2. CASE ~Syncable(store, row[a])
    <3>1. Fits(a)'
      BY <1>1, <2>2 DEF Fits
    <3>2. ASSUME NEW q \in AllProcs PROVE ~Syncing(req'[q], a)
      BY <1>2, <1>4, <2>2 DEF Syncing
    <3> QED
      BY <3>1, <3>2
  <2> QED
    BY <2>1, <2>2
<1> QED
  BY <1>2, <1>3, <1>5 DEF Granted

\* What an agent may route depends on its binding only.
LEMMA SameNets ==
    ASSUME NEW s, NEW r, NEW q, r.link = q.link, r.acl = q.acl, r.allowed = q.allowed
    PROVE  computeOtherSiteNets(s, r) = computeOtherSiteNets(s, q)
BY DEF computeOtherSiteNets

\* A sync writes what the present binding allows.
LEMMA SyncGoesOn ==
    ASSUME IInv, NEW p \in AllProcs, syncOneAgent(p)
    PROVE  Kept(p) /\ Granted'
<1> USE DEF IInv, Kept, At
<1>1. PICK b, wanted :
      /\ req[p].pc = "agentone" /\ b \in req[p].todo /\ UNCHANGED <<store, lock>>
      /\ wanted = computeOtherSiteNets(store, req[p].old[b])
      /\ req' = [req EXCEPT ![p].todo = @ \ {b}]
      /\ \/ /\ row' = IF wanted = req[p].old[b].text THEN row ELSE [row EXCEPT ![b].text = wanted]
            /\ UNCHANGED lost
         \/ lost' /\ UNCHANGED row
  <2> DEFINE x == CHOOSE x \in req[p].todo : TRUE
             w == computeOtherSiteNets(store, req[p].old[x])
  <2>1. x \in req[p].todo
    BY DEF syncOneAgent
  <2> QED
    BY <2>1 DEF syncOneAgent, hub, NoFault, Fault
<1>2. /\ ReqOK' /\ Alone(p) /\ req'[p].pc = "agentone" /\ req'[p].kind = req[p].kind
      /\ req'[p].old = req[p].old /\ req'[p].todo = req[p].todo \ {b}
  BY <1>1 DEF ReqOK, ReqFields, Alone
<1>3. HasLock(p) /\ LockStep(p)
  BY <1>1, <1>2 DEF LockStep, LockOK, KindOK, Inside
<1>4. RowOK'
  BY <1>1 DEF RowOK, RowFields
<1>5. CASE lost'
  BY <1>2, <1>3, <1>4, <1>5 DEF Granted
<1>6. CASE /\ ~lost'
           /\ row' = IF wanted = req[p].old[b].text THEN row ELSE [row EXCEPT ![b].text = wanted]
           /\ UNCHANGED lost
  <2>1. ASSUME NEW q \in AllProcs PROVE Pending(req'[q]) <=> Pending(req[q])
    BY <1>1, <1>2 DEF Alone, Pending, PendingPcs
  <2>2. CASE \E q \in AllProcs : Pending(req[q])
    BY <1>2, <1>3, <1>4, <2>1, <2>2 DEF Granted
  <2>3. CASE ~\E q \in AllProcs : Pending(req[q])
    <3>1. ASSUME NEW a \in Agents
          PROVE  /\ Fits(a) \/ \E q \in AllProcs : Syncing(req[q], a)
                 /\ \A q \in AllProcs : Syncing(req[q], a) => SameBinding(req[q].old[a], row[a])
      BY <1>6, <2>3 DEF Granted
    <3>2. ASSUME NEW q \in AllProcs, req[q].pc = "agentone" PROVE q = p
      BY <1>3, <3>2 DEF LockOK, HasLock, Inside
    <3>3. ASSUME NEW q \in AllProcs, NEW a, Syncing(req'[q], a)
          PROVE  q = p /\ a # b /\ Syncing(req[q], a) /\ req'[q].old = req[q].old
      BY <1>1, <1>2, <3>2, <3>3 DEF Syncing, Alone
    <3>4. ASSUME NEW a \in Agents, a # b
          PROVE  /\ row'[a] = row[a]
                 /\ \A q \in AllProcs : Syncing(req[q], a) => Syncing(req'[q], a)
      BY <1>1, <1>2, <1>6, <3>2, <3>4 DEF Syncing, RowOK
    <3>5. ASSUME b \in Agents PROVE Fits(b)'
      <4>1. SameBinding(req[p].old[b], row[b])
        BY <1>1, <3>1, <3>5 DEF Syncing
      <4>2. wanted = computeOtherSiteNets(store, row[b])
        BY <1>1, <4>1, SameNets DEF SameBinding
      <4>3. CASE wanted = req[p].old[b].text
        <5>1. row' = row /\ store' = store /\ row[b].text \subseteq wanted
          BY <1>1, <1>6, <4>1, <4>3 DEF SameBinding
        <5> QED
          BY <4>2, <5>1 DEF Fits
      <4>4. CASE wanted # req[p].old[b].text
        <5>1. /\ row'[b].text = wanted /\ row'[b].link = row[b].link
              /\ row'[b].acl = row[b].acl /\ row'[b].allowed = row[b].allowed
          BY <1>6, <3>5, <4>4 DEF RowOK, RowFields
        <5>2. computeOtherSiteNets(store', row'[b]) = wanted
          BY <1>1, <4>2, <5>1, SameNets
        <5>3. row'[b].text \subseteq computeOtherSiteNets(store', row'[b])
          BY <5>1, <5>2
        <5> QED
          BY <5>3, Zenon DEF Fits
      <4> QED
        BY <4>3, <4>4
    <3>6. ASSUME NEW a \in Agents
          PROVE  Fits(a)' \/ \E q \in AllProcs : Syncing(req'[q], a)
      <4>1. CASE a = b
        BY <3>5, <4>1
      <4>2. CASE a # b
        <5>1. Fits(a) => Fits(a)'
          BY <1>1, <3>4, <4>2 DEF Fits
        <5> QED
          BY <3>1, <3>4, <4>2, <5>1
      <4> QED
        BY <4>1, <4>2
    <3>7. ASSUME NEW a \in Agents, NEW q \in AllProcs, Syncing(req'[q], a)
          PROVE  SameBinding(req'[q].old[a], row'[a])
      BY <3>1, <3>3, <3>4, <3>7
    <3> QED
      BY <1>2, <1>3, <1>4, <3>6, <3>7 DEF Granted
  <2> QED
    BY <2>2, <2>3
<1> QED
  BY <1>1, <1>5, <1>6

\* A sync that has come to every agent leaves none behind.
LEMMA SyncEnds ==
    ASSUME IInv, NEW p \in AllProcs, SyncEnd(p)
    PROVE  Kept(p) /\ Granted'
<1> USE DEF IInv, Kept, At
<1>1. /\ req[p].pc = "agentone" /\ req[p].todo = {} /\ Finish(p) /\ lock' = Tail(lock)
      /\ UNCHANGED <<store, row, lost>>
  BY DEF SyncEnd, Release, hub
<1>2. ReqOK' /\ Alone(p) /\ req'[p].pc = "idle" /\ ~Inside(req'[p])
  BY <1>1, Finishes
<1>3. LockStep(p) /\ RowOK'
  BY <1>1, <1>2 DEF LockStep, LockOK, KindOK, Inside, RowOK
<1>4. ASSUME NEW q \in AllProcs
      PROVE  /\ Pending(req'[q]) <=> Pending(req[q])
             /\ \A a : Syncing(req'[q], a) <=> Syncing(req[q], a)
             /\ \A a : Syncing(req[q], a) => req'[q] = req[q]
  BY <1>1, <1>2 DEF Alone, Pending, PendingPcs, Syncing
<1>5. ASSUME NEW a \in Agents PROVE Fits(a)' <=> Fits(a)
  BY <1>1 DEF Fits
<1>6. Granted'
  BY <1>1, <1>4, <1>5 DEF Granted
<1> QED
  BY <1>2, <1>3, <1>6

-----------------------------------------------------------------------------
(* The invariant *)

\* The timer's sync covers what a fault has left behind; a restart counts as one.
LEMMA Repairs ==
    ASSUME IInv, Reconcile \/ Crash \/ Reboot
    PROVE  IInv'
<1> USE DEF IInv, At
<1>1. CASE Reconcile
  <2>1. /\ req[Timer].pc = "idle" /\ lock' = Append(lock, Timer) /\ UNCHANGED row
        /\ req' = [req EXCEPT ![Timer].pc = "agents", ![Timer].kind = "timer"]
    BY <1>1 DEF Reconcile, Queue
  <2>2. Timer \in AllProcs
    BY DEF AllProcs
  <2>3. ReqOK' /\ Alone(Timer) /\ req'[Timer].pc = "agents" /\ req'[Timer].kind = "timer"
    BY <2>1, <2>2 DEF ReqOK, ReqFields, Alone
  <2>4. LockStep(Timer) /\ SyncStep(Timer) /\ RowOK'
    BY <2>1, <2>3 DEF LockStep, KindOK, Inside, SyncStep, Pending, PendingPcs, RowOK
  <2> QED
    BY <2>2, <2>3, <2>4, LockKept, GrantedKept
<1>2. CASE Crash \/ Reboot
  <2>1. lost' /\ lock' = <<>> /\ UNCHANGED row /\ req' = [p \in AllProcs |-> Idle]
    BY <1>2 DEF Crash, Reboot, Fault
  <2>2. ReqOK' /\ \A p \in AllProcs : req'[p].pc = "idle"
    BY <2>1 DEF ReqOK, ReqFields, Idle
  <2> QED
    BY <2>1, <2>2 DEF RowOK, LockOK, KindOK, Inside, Granted
<1> QED
  BY <1>1, <1>2

\* The hub starts with every configuration in step.
LEMMA Initially == Init => IInv
<1> SUFFICES ASSUME Init PROVE IInv
  OBVIOUS
<1>1. ReqOK /\ \A p \in AllProcs : req[p].pc = "idle"
  BY DEF Init, ReqOK, ReqFields, Idle
<1>2. RowOK
  BY MeshStart DEF Init, MeshStart, RowOK, RowFields
<1>3. LockOK
  BY <1>1 DEF Init, LockOK, KindOK, Inside
<1>4. Granted
  BY <1>1, MeshStart DEF Init, MeshStart, Granted, Fits, Syncing
<1> QED
  BY <1>1, <1>2, <1>3, <1>4 DEF IInv

\* The invariant holds in every state of the hub.
LEMMA Inductive == Spec => []IInv
<1>1. IInv /\ [Next]_vars => IInv'
  <2> SUFFICES ASSUME IInv, [Next]_vars PROVE IInv'
    OBVIOUS
  <2>1. ASSUME NEW p \in AllProcs, Kept(p), SyncStep(p) \/ Granted' PROVE IInv'
    BY <2>1, LockKept, GrantedKept DEF IInv, Kept
  <2>2. ASSUME NEW p \in Procs, Request(p) PROVE IInv'
    BY <2>1, <2>2, Requested DEF AllProcs
  <2>3. ASSUME NEW p \in Procs, Handle(p) PROVE IInv'
    BY <2>1, <2>3, Written, Renamed, HubSynced, Created, Deleted, Updated, Uploaded DEF Handle, AllProcs
  <2>4. ASSUME NEW p \in AllProcs, Sync(p) PROVE IInv'
    BY <2>1, <2>4, SyncBegins, SyncGoesOn, SyncEnds DEF Sync
  <2>5. CASE UNCHANGED vars
    BY <2>5 DEF vars, IInv, ReqOK, RowOK, LockOK, HasLock, Granted, Fits
  <2> QED
    BY <2>2, <2>3, <2>4, <2>5, Repairs DEF Next
<1> QED
  BY <1>1, Initially, PTL DEF Spec

-----------------------------------------------------------------------------
(* What the mesh promises *)

\* Once every request has ended and no fault is unrepaired, no agent's stored
\* configuration grants a network its whitelist does not allow, whatever the requests
\* interleaved with (syncAgentConfigs, cascadeLinkRenames, agent update and upload).
THEOREM NeverMore == Spec => []NeverMoreThanAllowed
<1>1. IInv => NeverMoreThanAllowed
  BY DEF IInv, NeverMoreThanAllowed, Granted, Quiet, At, Pending, PendingPcs, Syncing, Fits
<1> QED
  BY <1>1, Inductive, PTL

-----------------------------------------------------------------------------
(* Revoked peers *)

\* wg0.conf and the kernel's peers are kept per link.
HubOK == DOMAIN conf = Links /\ DOMAIN live = Links
\* Peers are only added as wg0.conf lists them.
AddsListed == \A l \in Links : live[l] = None /\ live'[l] # None => conf[l] # None

\* No step adds a peer that wg0.conf does not list.
LEMMA Adds == ASSUME HubOK, [Next]_vars PROVE HubOK' /\ AddsListed
<1> USE DEF HubOK, AddsListed, hub
<1>1. ASSUME UNCHANGED <<conf, live>> PROVE HubOK' /\ AddsListed
  BY <1>1
<1>2. ASSUME NEW p \in Procs, Request(p) PROVE UNCHANGED <<conf, live>>
  BY <1>2 DEF Request, MetadataRequest, Create, Delete, UpdateRead, UploadRead
<1>3. ASSUME NEW p \in Procs,
             Enqueue(p) \/ PatchWrite(p) \/ PeerStatus(p) \/ CascadeRename(p) \/ CascadeDone(p)
      PROVE  UNCHANGED <<conf, live>>
  BY <1>3 DEF Enqueue, PatchWrite, PeerStatus, CascadeRename, CascadeDone
<1>4. ASSUME NEW p \in Procs,
             CreateMeta(p) \/ DeleteMeta(p) \/ DeleteAgents(p) \/ UpdatePatch(p) \/ UploadPatch(p)
      PROVE  UNCHANGED <<conf, live>>
  BY <1>4 DEF CreateMeta, DeleteMeta, DeleteAgents, UpdatePatch, UploadPatch
<1>5. ASSUME NEW p \in Procs, SyncHubConf(p) PROVE HubOK' /\ AddsListed
  BY <1>5 DEF SyncHubConf, buildPeerUpdates
<1>6. ASSUME NEW p \in Procs, SyncHubLive(p) PROVE HubOK' /\ AddsListed
  BY <1>6 DEF SyncHubLive
<1>7. ASSUME NEW p \in Procs, CreateConf(p) PROVE HubOK' /\ AddsListed
  BY <1>7 DEF CreateConf
<1>8. ASSUME NEW p \in Procs, CreateLive(p) PROVE HubOK' /\ AddsListed
  BY <1>8 DEF CreateLive
<1>9. ASSUME NEW p \in Procs, DeleteConf(p) \/ DeleteLive(p) PROVE HubOK' /\ AddsListed
  BY <1>9 DEF DeleteConf, DeleteLive
<1>10. ASSUME NEW p \in AllProcs, Sync(p) PROVE UNCHANGED <<conf, live>>
  BY <1>10 DEF Sync, SyncRead, syncOneAgent, SyncEnd
<1>11. CASE Reconcile \/ Crash \/ Reboot
  BY <1>11 DEF Reconcile, Crash, Reboot
<1>12. CASE UNCHANGED vars
  BY <1>12 DEF vars
<1> QED
  BY <1>1, <1>2, <1>3, <1>4, <1>5, <1>6, <1>7, <1>8, <1>9, <1>10, <1>11, <1>12 DEF Next, Handle

\* A revoked peer does not come back: a step of syncHubConfCore, createPeer or a
\* reboot adds to the kernel only a peer that wg0.conf lists at that moment, so no
\* sync that read the conf before a delete sets the peer afterwards.
THEOREM RevokedOut == Spec => RevokedStaysOut
<1>1. Init => HubOK
  BY DEF Init, HubOK
<1>2. HubOK /\ [Next]_vars => HubOK' /\ [AddsListed]_vars
  BY Adds
<1>3. [AddsListed]_vars => [\A l \in Links : live[l] = None /\ live'[l] # None => conf[l] # None]_vars
  BY DEF AddsListed
<1> QED
  BY <1>1, <1>2, <1>3, PTL DEF Spec, RevokedStaysOut

-----------------------------------------------------------------------------
(* The hub's three copies *)

\* A key that genkey drew and the kernel does not have yet.
Making(r) == r.pc \in {"create", "createlive"}
\* Where a request is about to add or to remove the peer of a key.
KeyPcs == {"create", "createlive", "createmeta", "delconf", "dellive"}
Claims(r, l) == r.pc \in KeyPcs /\ r.in.link = l

\* What such a request knows of its key: wg0.conf is written under the lock, and nobody
\* adds a peer that is being removed.
KeyOK(r) ==
    /\ r.pc \in {"create", "createlive", "createmeta"} => r.kind = "create" /\ r.in.link \in Links
    /\ r.pc \in {"delconf", "dellive"} => r.kind = "delete"
    /\ Making(r) => live[r.in.link] = None
    /\ r.pc = "create" => conf[r.in.link] = None
    /\ r.pc = "dellive" /\ r.in.link \in Links => conf[r.in.link] = None
    /\ r.pc \in {"createlive", "createmeta"} => conf[r.in.link] = r.in.meta.nets
    /\ r.pc = "createmeta" => live[r.in.link] = conf[r.in.link]

\* A key that is being made is nobody else's.
KeysOK ==
    /\ \A p \in Procs : KeyOK(req[p])
    /\ \A p, q \in Procs : p # q /\ Making(req[p]) => ~Claims(req[q], req[p].in.link)

\* The kernel's peer will be set as wg0.conf has it.
LiveDue(r, l) ==
    \/ r.pc \in {"dellive", "createlive"} /\ r.in.link = l
    \/ r.pc = "hublive" /\ (l \in r.todo \/ (conf[l] # None /\ live[l] # None))
\* wg0.conf will take the networks of the store.
ConfDue(r, l) ==
    \/ r.pc \in {"status", "cascade", "hub"}
    \/ r.pc \in {"createlive", "createmeta"} /\ r.in.link = l
\* The routes will follow wg0.conf.
RoutesDue(r) ==
    \/ r.pc \in {"hub", "hublive", "dellive", "delmeta", "delagents"}
    \/ r.pc \in {"createlive", "createmeta"} /\ r.in.meta.nets # {}

LiveAgrees == \A l \in Links : live[l] = conf[l] \/ \E p \in Procs : LiveDue(req[p], l)
ConfAgrees ==
    \A l \in Links : \/ conf[l] = None \/ store[l] = None \/ conf[l] = store[l].nets
                     \/ \E p \in Procs : ConfDue(req[p], l)
RoutesAgree == routes = allRouteNets(conf) \/ \E p \in Procs : RoutesDue(req[p])

HubTypes ==
    /\ nfault \in Nat
    /\ DOMAIN store = Links
    /\ conf = [l \in Links |-> conf[l]]
    /\ live = [l \in Links |-> live[l]]
HubInv == HubTypes /\ (nfault = 0 => KeysOK /\ LiveAgrees /\ ConfAgrees /\ RoutesAgree)

\* A request that comes in reads, and writes nothing of the hub.
LEMMA RequestReads == ASSUME NEW p \in Procs, Request(p) PROVE UNCHANGED <<hub, row, lost, nfault>>
<1>1. ASSUME NEW k, NEW body, MetadataRequest(p, k, body) PROVE UNCHANGED <<hub, row, lost, nfault>>
  BY <1>1 DEF MetadataRequest
<1>2. ASSUME NEW l, NEW m, Create(p, l, m) PROVE UNCHANGED <<hub, row, lost, nfault>>
  BY <1>2 DEF Create
<1>3. ASSUME NEW l, NEW c, Delete(p, l, c) PROVE UNCHANGED <<hub, row, lost, nfault>>
  BY <1>3 DEF Delete
<1>4. ASSUME NEW u, UpdateRead(p, u) PROVE UNCHANGED <<hub, row, lost, nfault>>
  BY <1>4 DEF UpdateRead
<1>5. ASSUME NEW a, NEW nets, UploadRead(p, a, nets) PROVE UNCHANGED <<hub, row, lost, nfault>>
  BY <1>5 DEF UploadRead
<1> QED
  BY <1>1, <1>2, <1>3, <1>4, <1>5 DEF Request

\* Steps that write rows only.
LEMMA RowsOnly ==
    ASSUME NEW p \in Procs, DeleteAgents(p) \/ UpdatePatch(p) \/ UploadPatch(p)
    PROVE  UNCHANGED <<hub, lost, nfault>>
<1>1. CASE DeleteAgents(p)
  BY <1>1 DEF DeleteAgents
<1>2. CASE UpdatePatch(p)
  BY <1>2 DEF UpdatePatch
<1>3. CASE UploadPatch(p)
  BY <1>3 DEF UploadPatch
<1> QED
  BY <1>1, <1>2, <1>3

\* What the end of the hub's process and a reboot change: a fault is counted.
LEMMA FaultStep ==
    ASSUME HubTypes, Crash \/ Reboot
    PROVE  HubTypes' /\ nfault' = nfault + 1
<1>1. CASE Crash
  <2>1. nfault' = nfault + 1 /\ UNCHANGED <<store, conf, live>>
    BY <1>1, Zenon DEF Crash, Fault, hub
  <2> QED
    BY <2>1 DEF HubTypes
<1>2. CASE Reboot
  <2>1. nfault' = nfault + 1 /\ UNCHANGED <<store, conf>> /\ live' = conf
    BY <1>2, Zenon DEF Reboot, Fault
  <2> QED
    BY <2>1 DEF HubTypes
<1> QED
  BY <1>1, <1>2

\* The types are kept by every step.
LEMMA HubTyped == ASSUME HubTypes, [Next]_vars PROVE HubTypes'
<1> USE DEF HubTypes, hub, Fault, NoFault
<1>1. ASSUME UNCHANGED <<store, conf, live>>, UNCHANGED nfault \/ nfault' = nfault + 1 PROVE HubTypes'
  BY <1>1
<1>2. ASSUME NEW p \in Procs, Request(p) PROVE HubTypes'
  BY <1>1, <1>2, RequestReads
<1>3. ASSUME NEW p \in Procs,
             Enqueue(p) \/ PeerStatus(p) \/ CascadeRename(p) \/ CascadeDone(p)
      PROVE  HubTypes'
  BY <1>1, <1>3 DEF Enqueue, PeerStatus, CascadeRename, CascadeDone
<1>4. ASSUME NEW p \in Procs, DeleteAgents(p) \/ UpdatePatch(p) \/ UploadPatch(p) PROVE HubTypes'
  BY <1>1, <1>4, RowsOnly
<1>5. ASSUME NEW p \in Procs, PatchWrite(p) PROVE HubTypes'
  <2>1. DOMAIN store' = Links
    BY <1>5 DEF PatchWrite, mergeMetadataStorePatch
  <2> QED
    BY <1>5, <2>1 DEF PatchWrite
<1>6. ASSUME NEW p \in Procs, SyncHubConf(p) PROVE HubTypes'
  <2>1. conf' = [l \in Links |-> conf'[l]]
    BY <1>6 DEF SyncHubConf, buildPeerUpdates
  <2> QED
    BY <1>6, <2>1 DEF SyncHubConf
<1>7. ASSUME NEW p \in Procs, SyncHubLive(p) PROVE HubTypes'
  <2>1. live' = [l \in Links |-> live'[l]]
    BY <1>7 DEF SyncHubLive
  <2> QED
    BY <1>7, <2>1 DEF SyncHubLive
<1>8. ASSUME NEW p \in Procs, CreateConf(p) PROVE HubTypes'
  <2>1. conf' = [l \in Links |-> conf'[l]]
    BY <1>8 DEF CreateConf
  <2> QED
    BY <1>8, <2>1 DEF CreateConf
<1>9. ASSUME NEW p \in Procs, CreateLive(p) PROVE HubTypes'
  <2>1. conf' = [l \in Links |-> conf'[l]] /\ live' = [l \in Links |-> live'[l]]
    BY <1>9 DEF CreateLive
  <2> QED
    BY <1>9, <2>1 DEF CreateLive
<1>10. ASSUME NEW p \in Procs, CreateMeta(p) \/ DeleteMeta(p) PROVE HubTypes'
  <2>1. DOMAIN store' = Links
    BY <1>10 DEF CreateMeta, DeleteMeta
  <2> QED
    BY <1>10, <2>1 DEF CreateMeta, DeleteMeta
<1>11. ASSUME NEW p \in Procs, DeleteConf(p) PROVE HubTypes'
  <2>1. conf' = [l \in Links |-> conf'[l]]
    BY <1>11 DEF DeleteConf
  <2> QED
    BY <1>11, <2>1 DEF DeleteConf
<1>12. ASSUME NEW p \in Procs, DeleteLive(p) PROVE HubTypes'
  <2>1. live' = [l \in Links |-> live'[l]]
    BY <1>12 DEF DeleteLive
  <2> QED
    BY <1>12, <2>1 DEF DeleteLive
<1>13. ASSUME NEW p \in AllProcs, Sync(p) PROVE HubTypes'
  BY <1>1, <1>13 DEF Sync, SyncRead, syncOneAgent, SyncEnd
<1>14. CASE Reconcile \/ Crash \/ Reboot
  <2>1. CASE Reconcile
    BY <1>1, <2>1 DEF Reconcile
  <2>2. CASE Crash \/ Reboot
    BY <2>2, FaultStep
  <2> QED
    BY <1>14, <2>1, <2>2
<1>15. CASE UNCHANGED vars
  BY <1>1, <1>15 DEF vars
<1> QED
  BY <1>2, <1>3, <1>4, <1>5, <1>6, <1>7, <1>8, <1>9, <1>10, <1>11, <1>12, <1>13, <1>14, <1>15 DEF Next, Handle

\* Only the holder of the lock is inside its section.
LEMMA OneInside ==
    ASSUME LockOK, NEW p \in AllProcs, HasLock(p), NEW q \in AllProcs, Inside(req[q])
    PROVE  q = p
BY DEF LockOK, HasLock

-----------------------------------------------------------------------------
(* Steps that leave the hub alone *)

\* The request of p goes on without a claim on a key, and keeps what it owes the hub.
GoesOn(p) ==
    \/ req'[p] = req[p]
    \/ /\ req'[p].pc \notin KeyPcs
       /\ req[p].pc \notin {"createlive", "createmeta", "dellive", "hub", "hublive", "delmeta"}
       /\ req[p].pc \in {"status", "cascade"} => req'[p].pc \in {"cascade", "hub"}
       /\ req[p].pc = "delagents" => req'[p].pc = "hub"

LEMMA HubStays ==
    ASSUME HubInv, HubTypes', NEW p \in AllProcs, Alone(p), UNCHANGED hub,
           nfault' = nfault \/ nfault' = nfault + 1, GoesOn(p)
    PROVE  HubInv'
<1> USE DEF hub
<1> SUFFICES ASSUME nfault' = 0 PROVE KeysOK' /\ LiveAgrees' /\ ConfAgrees' /\ RoutesAgree'
  BY DEF HubInv
<1>1. KeysOK /\ LiveAgrees /\ ConfAgrees /\ RoutesAgree
  BY DEF HubInv, HubTypes
<1>2. ASSUME NEW q \in Procs
      PROVE  req'[q] = req[q] \/ (q = p /\ req'[q].pc \notin KeyPcs)
  BY DEF Alone, GoesOn, AllProcs
<1>3. KeysOK'
  <2>1. ASSUME NEW q \in Procs PROVE KeyOK(req[q])'
    BY <1>1, <1>2 DEF KeysOK, KeyOK, KeyPcs, Making
  <2>2. ASSUME NEW q \in Procs, NEW r \in Procs, q # r, Making(req'[q])
        PROVE  ~Claims(req'[r], req'[q].in.link)
    BY <1>1, <1>2, <2>2 DEF KeysOK, KeyPcs, Making, Claims
  <2> QED
    BY <2>1, <2>2 DEF KeysOK
<1>4. LiveAgrees'
  <2>1. ASSUME NEW q \in Procs, NEW l, LiveDue(req[q], l) PROVE LiveDue(req[q], l)'
    BY <2>1 DEF LiveDue, Alone, GoesOn, AllProcs
  <2> QED
    BY <1>1, <2>1 DEF LiveAgrees
<1>5. ConfAgrees'
  <2>1. ASSUME NEW q \in Procs, NEW l, ConfDue(req[q], l) PROVE ConfDue(req'[q], l)
    BY <2>1 DEF ConfDue, Alone, GoesOn, AllProcs
  <2> QED
    BY <1>1, <2>1 DEF ConfAgrees
<1>6. RoutesAgree'
  <2>1. ASSUME NEW q \in Procs, RoutesDue(req[q]) PROVE RoutesDue(req'[q])
    BY <2>1 DEF RoutesDue, Alone, GoesOn, AllProcs
  <2> QED
    BY <1>1, <2>1 DEF RoutesAgree, allRouteNets
<1> QED
  BY <1>3, <1>4, <1>5, <1>6

\* The steps of which this is true.
LEMMA HubUntouched ==
    ASSUME IInv, HubInv, HubTypes', NEW p \in Procs,
           \/ Enqueue(p) \/ PeerStatus(p) \/ CascadeRename(p) \/ CascadeDone(p)
           \/ DeleteAgents(p) \/ UpdatePatch(p) \/ UploadPatch(p)
    PROVE  HubInv'
<1> USE DEF IInv, AllProcs, At
<1>1. Alone(p)
  <2>1. CASE Enqueue(p) \/ PeerStatus(p)
    BY <2>1, Written DEF Kept
  <2>2. CASE CascadeRename(p) \/ CascadeDone(p)
    BY <2>2, Renamed DEF Kept
  <2>3. CASE DeleteAgents(p)
    BY <2>3, Deleted DEF Kept
  <2>4. CASE UpdatePatch(p) \/ UploadPatch(p)
    BY <2>4, Updated, Uploaded DEF Kept
  <2> QED
    BY <2>1, <2>2, <2>3, <2>4
<1>2. UNCHANGED hub /\ (nfault' = nfault \/ nfault' = nfault + 1)
  <2>1. CASE Enqueue(p) \/ PeerStatus(p) \/ CascadeRename(p) \/ CascadeDone(p)
    BY <2>1 DEF Enqueue, PeerStatus, CascadeRename, CascadeDone, NoFault, Fault
  <2>2. CASE DeleteAgents(p) \/ UpdatePatch(p) \/ UploadPatch(p)
    BY <2>2, RowsOnly
  <2> QED
    BY <2>1, <2>2
<1>3. GoesOn(p)
  <2> USE DEF GoesOn, KeyPcs, ReqOK
  <2>1. CASE Enqueue(p)
    BY <2>1 DEF Enqueue
  <2>2. CASE PeerStatus(p)
    BY <2>2 DEF PeerStatus, ReqFields
  <2>3. CASE CascadeRename(p)
    BY <2>3 DEF CascadeRename, ReqFields
  <2>4. CASE CascadeDone(p)
    BY <2>4 DEF CascadeDone, ReqFields
  <2>5. CASE DeleteAgents(p)
    BY <2>5 DEF DeleteAgents, ReqFields
  <2>6. CASE UpdatePatch(p)
    BY <2>6 DEF UpdatePatch, Goto, ReqFields
  <2>7. CASE UploadPatch(p)
    BY <2>7 DEF UploadPatch, Goto, Finish, Idle, ReqFields
  <2> QED
    BY <2>1, <2>2, <2>3, <2>4, <2>5, <2>6, <2>7
<1> QED
  BY <1>1, <1>2, <1>3, HubStays

\* The sync of the agents, the timer and a restart.
LEMMA HubSyncs ==
    ASSUME IInv, HubInv, HubTypes', NEW p \in AllProcs, Sync(p)
    PROVE  HubInv'
<1> USE DEF IInv, At, Sync
<1>1. Alone(p)
  BY SyncBegins, SyncGoesOn, SyncEnds DEF Kept
<1>2. UNCHANGED hub /\ (nfault' = nfault \/ nfault' = nfault + 1)
  BY DEF SyncRead, syncOneAgent, SyncEnd, NoFault, Fault
<1>3. GoesOn(p)
  BY DEF GoesOn, KeyPcs, ReqOK, ReqFields, SyncRead, syncOneAgent, SyncEnd, Finish, Idle
<1> QED
  BY <1>1, <1>2, <1>3, HubStays

LEMMA HubRepairs ==
    ASSUME IInv, HubInv, HubTypes', Reconcile \/ Crash \/ Reboot
    PROVE  HubInv'
<1> USE DEF IInv, At
<1>1. CASE Reconcile
  <2>1. Timer \in AllProcs /\ Timer \notin Procs
    BY MeshTimer DEF AllProcs, MeshTimer
  <2>2. Alone(Timer) /\ req'[Timer].pc = "agents" /\ req[Timer].pc = "idle"
    BY <1>1, <2>1 DEF Reconcile, Alone, ReqOK, ReqFields
  <2> QED
    BY <1>1, <2>1, <2>2, HubStays DEF Reconcile, GoesOn, KeyPcs
<1>2. CASE Crash \/ Reboot
  BY <1>2, FaultStep DEF HubInv, HubTypes
<1> QED
  BY <1>1, <1>2

\* createPeer draws a key nobody has; a delete is of a peer that the kernel has.
LEMMA HubRequested ==
    ASSUME IInv, HubInv, HubTypes', NEW p \in Procs, Request(p)
    PROVE  HubInv'
<1> USE DEF IInv
<1>1. p \in AllProcs /\ UNCHANGED hub /\ nfault' = nfault
  BY RequestReads DEF AllProcs
<1>2. Alone(p)
  BY Requested DEF Kept
<1>3. ASSUME NEW r, Begin(p, r), r.pc \in {"write", "update", "upload"} PROVE HubInv'
  <2>1. req[p].pc = "idle" /\ req'[p] = r
    BY <1>1, <1>3 DEF Begin, At, ReqOK
  <2> QED
    BY <1>1, <1>2, <1>3, <2>1, HubStays DEF GoesOn, KeyPcs
<1>4. ASSUME NEW r, Begin(p, r), r.pc \in {"create", "delconf"}, nfault = 0, KeyOK(r),
             \A q \in Procs \ {p} : /\ Making(req[q]) => req[q].in.link # r.in.link
                                    /\ Making(r) => ~Claims(req[q], r.in.link)
      PROVE  HubInv'
  <2> USE DEF hub
  <2>1. req[p].pc = "idle" /\ req'[p] = r
    BY <1>1, <1>4 DEF Begin, At, ReqOK
  <2>2. KeysOK /\ LiveAgrees /\ ConfAgrees /\ RoutesAgree
    BY <1>4 DEF HubInv
  <2>3. ASSUME NEW q \in Procs PROVE q = p \/ req'[q] = req[q]
    BY <1>2 DEF Alone, AllProcs
  <2>4. KeysOK'
    <3>1. ASSUME NEW q \in Procs PROVE KeyOK(req[q])'
      BY <1>1, <1>4, <2>1, <2>2, <2>3 DEF KeysOK, KeyOK, Making
    <3>2. ASSUME NEW q \in Procs, NEW o \in Procs, q # o, Making(req'[q])
          PROVE  ~Claims(req'[o], req'[q].in.link)
      BY <1>4, <2>1, <2>2, <2>3, <3>2 DEF KeysOK, Claims
    <3> QED
      BY <3>1, <3>2 DEF KeysOK
  <2>5. LiveAgrees'
    <3>1. ASSUME NEW q \in Procs, NEW l, LiveDue(req[q], l) PROVE LiveDue(req[q], l)'
      BY <1>1, <2>1, <2>3, <3>1 DEF LiveDue
    <3> QED
      BY <1>1, <2>2, <3>1 DEF LiveAgrees
  <2>6. ConfAgrees'
    <3>1. ASSUME NEW q \in Procs, NEW l, ConfDue(req[q], l) PROVE ConfDue(req'[q], l)
      BY <2>1, <2>3, <3>1 DEF ConfDue
    <3> QED
      BY <1>1, <2>2, <3>1 DEF ConfAgrees
  <2>7. RoutesAgree'
    <3>1. ASSUME NEW q \in Procs, RoutesDue(req[q]) PROVE RoutesDue(req'[q])
      BY <2>1, <2>3, <3>1 DEF RoutesDue
    <3> QED
      BY <1>1, <2>2, <3>1 DEF RoutesAgree, allRouteNets
  <2> QED
    BY <2>4, <2>5, <2>6, <2>7 DEF HubInv
<1>5. ASSUME NEW k, NEW body, MetadataRequest(p, k, body) PROVE HubInv'
  BY <1>3, <1>5 DEF MetadataRequest, Idle
<1>6. ASSUME NEW u, UpdateRead(p, u) PROVE HubInv'
  BY <1>3, <1>6 DEF UpdateRead, Idle
<1>7. ASSUME NEW a, NEW nets, UploadRead(p, a, nets) PROVE HubInv'
  BY <1>3, <1>7 DEF UploadRead, Idle
<1>8. CASE nfault # 0
  BY <1>1, <1>8 DEF HubInv
<1>9. ASSUME NEW l \in Links, NEW m, Create(p, l, m), nfault = 0 PROVE HubInv'
  <2> DEFINE r == [Idle EXCEPT !.pc = "create", !.kind = "create", !.in = [link |-> l, meta |-> m]]
  <2>1. r.pc = "create" /\ r.kind = "create" /\ r.in.link = l
    BY DEF Idle
  <2>2. Begin(p, r) /\ conf[l] = None /\ live[l] = None
    BY <1>9 DEF Create
  <2>3. KeyOK(r)
    BY <2>1, <2>2 DEF KeyOK, Making
  <2>4. ASSUME NEW q \in Procs \ {p} PROVE ~Claims(req[q], l)
    <3>1. KeyOK(req[q])
      BY <1>9 DEF HubInv, KeysOK
    <3>2. req[q].kind \in {"create", "delete"} => req[q].in.link # l
      BY <1>9 DEF Create
    <3> QED
      BY <3>1, <3>2 DEF KeyOK, Claims, KeyPcs
  <2>5. ASSUME NEW q \in Procs \ {p}, Making(req[q]) PROVE req[q].in.link # l
    BY <2>4, <2>5 DEF Claims, Making, KeyPcs
  <2> HIDE DEF r
  <2> QED
    BY <1>4, <1>9, <2>1, <2>2, <2>3, <2>4, <2>5
<1>10. ASSUME NEW l, NEW c, Delete(p, l, c), nfault = 0 PROVE HubInv'
  <2> DEFINE r == [Idle EXCEPT !.pc = "delconf", !.kind = "delete", !.old = boundName(l),
                               !.in = [link |-> l, cascade |-> c],
                               !.todo = planBoundAgentCascade(boundName(l))]
  <2>1. r.pc = "delconf" /\ r.kind = "delete" /\ r.in.link = l
    BY DEF Idle
  <2>2. Begin(p, r) /\ live[l] # None
    BY <1>10 DEF Delete
  <2>3. KeyOK(r) /\ ~Making(r)
    BY <2>1 DEF KeyOK, Making
  <2>4. ASSUME NEW q \in Procs \ {p}, Making(req[q]) PROVE req[q].in.link # l
    BY <1>10, <2>2, <2>4 DEF HubInv, KeysOK, KeyOK
  <2> HIDE DEF r
  <2> QED
    BY <1>4, <1>10, <2>1, <2>2, <2>3, <2>4
<1> QED
  BY <1>5, <1>6, <1>7, <1>8, <1>9, <1>10 DEF Request

-----------------------------------------------------------------------------
(* Steps that write the store, wg0.conf or the kernel *)

\* The store of a metadata request changes with the sync of the hub still to come.
LEMMA HubWritten ==
    ASSUME IInv, HubInv, HubTypes', NEW p \in Procs, PatchWrite(p)
    PROVE  HubInv'
<1> USE DEF IInv, AllProcs, At
<1>1. Alone(p)
  BY Written DEF Kept
<1>2. req[p].pc = "write" /\ UNCHANGED <<conf, live, routes>> /\ nfault' = nfault
  BY DEF PatchWrite
<1>3. \/ UNCHANGED store /\ req'[p].pc = "idle"
      \/ req'[p].pc \in {"status", "cascade"}
  BY DEF PatchWrite, Finish, Goto, Idle, ReqOK, ReqFields
<1>4. CASE UNCHANGED store /\ req'[p].pc = "idle"
  <2>1. GoesOn(p) /\ UNCHANGED hub
    BY <1>2, <1>4 DEF GoesOn, KeyPcs, hub
  <2> QED
    BY <1>1, <1>2, <2>1, HubStays
<1>5. CASE req'[p].pc \in {"status", "cascade"}
  <2> SUFFICES ASSUME nfault = 0 PROVE KeysOK' /\ LiveAgrees' /\ ConfAgrees' /\ RoutesAgree'
    BY <1>2 DEF HubInv
  <2>1. KeysOK /\ LiveAgrees /\ RoutesAgree
    BY DEF HubInv
  <2>2. ASSUME NEW q \in Procs PROVE req'[q] = req[q] \/ q = p
    BY <1>1 DEF Alone
  <2>3. KeysOK'
    <3>1. ASSUME NEW q \in Procs PROVE KeyOK(req[q])'
      BY <1>2, <1>5, <2>1, <2>2 DEF KeysOK, KeyOK, Making
    <3>2. ASSUME NEW q \in Procs, NEW o \in Procs, q # o, Making(req'[q])
          PROVE  ~Claims(req'[o], req'[q].in.link)
      BY <1>5, <2>1, <2>2, <3>2 DEF KeysOK, KeyPcs, Making, Claims
    <3> QED
      BY <3>1, <3>2 DEF KeysOK
  <2>4. LiveAgrees'
    <3>1. ASSUME NEW q \in Procs, NEW l, LiveDue(req[q], l) PROVE LiveDue(req[q], l)'
      BY <1>2, <2>2, <3>1 DEF LiveDue
    <3> QED
      BY <1>2, <2>1, <3>1 DEF LiveAgrees
  <2>5. ConfAgrees'
    BY <1>5 DEF ConfAgrees, ConfDue
  <2>6. RoutesAgree'
    <3>1. ASSUME NEW q \in Procs, RoutesDue(req[q]) PROVE RoutesDue(req'[q])
      BY <1>2, <2>2, <3>1 DEF RoutesDue
    <3> QED
      BY <1>2, <2>1, <3>1 DEF RoutesAgree, allRouteNets
  <2> QED
    BY <2>3, <2>4, <2>5, <2>6
<1> QED
  BY <1>3, <1>4, <1>5

\* wg0.conf takes the networks of the store; what it changes is noted for the kernel.
LEMMA HubConfSynced ==
    ASSUME IInv, HubInv, HubTypes', NEW p \in Procs, SyncHubConf(p)
    PROVE  HubInv'
<1> USE DEF IInv, AllProcs, At
<1> SUFFICES ASSUME nfault' = 0 PROVE KeysOK' /\ LiveAgrees' /\ ConfAgrees' /\ RoutesAgree'
  BY DEF HubInv
<1>1. nfault = 0 /\ nfault' = nfault
  BY DEF SyncHubConf, NoFault, Fault, HubInv, HubTypes
<1>2. /\ req[p].pc = "hub" /\ HasLock(p) /\ UNCHANGED <<store, live, routes>>
      /\ conf' = buildPeerUpdates
      /\ req' = [req EXCEPT ![p].pc = "hublive", ![p].todo = {l \in Links : conf[l] # buildPeerUpdates[l]}]
  BY <1>1 DEF SyncHubConf, NoFault, Fault, HubInv, HubTypes
<1>3. /\ req'[p].pc = "hublive" /\ req'[p].todo = {l \in Links : conf[l] # conf'[l]}
      /\ \A q \in Procs \ {p} : req'[q] = req[q]
  BY <1>2 DEF ReqOK, ReqFields
<1>4. KeysOK /\ LiveAgrees
  BY <1>1 DEF HubInv
<1>5. ASSUME NEW q \in Procs, q # p
      PROVE  req[q].pc \notin {"createlive", "createmeta", "hublive"}
  BY <1>2, <1>5, OneInside DEF Inside
<1>6. ASSUME NEW l \in Links
      PROVE  conf'[l] = IF conf[l] # None /\ store[l] # None THEN store[l].nets ELSE conf[l]
  BY <1>2 DEF buildPeerUpdates
<1>7. KeysOK'
  <2>1. ASSUME NEW q \in Procs PROVE KeyOK(req[q])'
    <3>1. CASE q = p
      BY <1>3, <3>1 DEF KeyOK, Making
    <3>2. CASE q # p
      <4>1. req'[q] = req[q] /\ KeyOK(req[q]) /\ req[q].pc \notin {"createlive", "createmeta"}
        BY <1>3, <1>4, <1>5, <3>2 DEF KeysOK
      <4>2. /\ req[q].pc = "create" =>
                  conf'[req[q].in.link] = None /\ live'[req[q].in.link] = None
            /\ req[q].pc = "dellive" /\ req[q].in.link \in Links => conf'[req[q].in.link] = None
        BY <1>2, <1>6, <4>1 DEF KeyOK, Making
      <4> QED
        BY <4>1, <4>2 DEF KeyOK, Making
    <3> QED
      BY <3>1, <3>2
  <2>2. ASSUME NEW q \in Procs, NEW o \in Procs, q # o, Making(req'[q])
        PROVE  ~Claims(req'[o], req'[q].in.link)
    BY <1>3, <1>4, <2>2 DEF KeysOK, KeyPcs, Making, Claims
  <2> QED
    BY <2>1, <2>2 DEF KeysOK
<1>8. LiveAgrees'
  <2> SUFFICES ASSUME NEW l \in Links, live[l] # conf'[l] PROVE \E q \in Procs : LiveDue(req[q], l)'
    BY <1>2 DEF LiveAgrees
  <2>1. CASE conf'[l] # conf[l]
    BY <1>3, <2>1 DEF LiveDue
  <2>2. CASE conf'[l] = conf[l]
    <3>1. PICK q \in Procs : LiveDue(req[q], l)
      BY <1>4, <2>2 DEF LiveAgrees
    <3>2. q # p /\ req[q].pc = "dellive"
      BY <1>2, <1>5, <3>1 DEF LiveDue
    <3> QED
      BY <1>3, <3>1, <3>2 DEF LiveDue
  <2> QED
    BY <2>1, <2>2
<1>9. ConfAgrees'
  BY <1>2, <1>6 DEF ConfAgrees
<1>10. RoutesAgree'
  BY <1>3 DEF RoutesAgree, RoutesDue
<1> QED
  BY <1>7, <1>8, <1>9, <1>10

\* The kernel and the routes follow wg0.conf, which the lock has kept as it is.
LEMMA HubLiveSynced ==
    ASSUME IInv, HubInv, HubTypes', NEW p \in Procs, SyncHubLive(p)
    PROVE  HubInv'
<1> USE DEF IInv, AllProcs, At
<1> SUFFICES ASSUME nfault' = 0 PROVE KeysOK' /\ LiveAgrees' /\ ConfAgrees' /\ RoutesAgree'
  BY DEF HubInv
<1>1. nfault = 0 /\ nfault' = nfault
  BY DEF SyncHubLive, NoFault, Fault, HubInv, HubTypes
<1> DEFINE due == req[p].todo \cup {l \in Present(conf) : live[l] # None /\ live[l] # conf[l]}
<1>2. /\ req[p].pc = "hublive" /\ HasLock(p) /\ UNCHANGED <<store, conf>>
      /\ live' = [l \in Links |-> IF l \in due THEN conf[l] ELSE live[l]]
      /\ routes' = allRouteNets(conf)
      /\ req' = [req EXCEPT ![p].pc = "agents", ![p].todo = {}]
  BY <1>1 DEF SyncHubLive, NoFault, Fault, HubInv, HubTypes
<1>3. req'[p].pc = "agents" /\ \A q \in Procs \ {p} : req'[q] = req[q]
  BY <1>2 DEF ReqOK, ReqFields
<1>4. KeysOK /\ LiveAgrees /\ ConfAgrees
  BY <1>1 DEF HubInv
<1>5. ASSUME NEW q \in Procs, q # p
      PROVE  req[q].pc \notin {"createlive", "createmeta", "hublive"}
  BY <1>2, <1>5, OneInside DEF Inside
<1>6. ASSUME NEW l \in Links PROVE live'[l] = conf[l] \/ (live'[l] = live[l] /\ l \notin due)
  BY <1>2
<1>7. KeysOK'
  <2>1. ASSUME NEW q \in Procs PROVE KeyOK(req[q])'
    <3>1. CASE q = p
      BY <1>3, <3>1 DEF KeyOK, Making
    <3>2. CASE q # p
      <4>1. req'[q] = req[q] /\ KeyOK(req[q]) /\ req[q].pc \notin {"createlive", "createmeta"}
        BY <1>3, <1>4, <1>5, <3>2 DEF KeysOK
      <4>2. /\ req[q].pc = "create" =>
                  conf'[req[q].in.link] = None /\ live'[req[q].in.link] = None
            /\ req[q].pc = "dellive" /\ req[q].in.link \in Links => conf'[req[q].in.link] = None
        BY <1>2, <1>6, <4>1 DEF KeyOK, Making
      <4> QED
        BY <4>1, <4>2 DEF KeyOK, Making
    <3> QED
      BY <3>1, <3>2
  <2>2. ASSUME NEW q \in Procs, NEW o \in Procs, q # o, Making(req'[q])
        PROVE  ~Claims(req'[o], req'[q].in.link)
    BY <1>3, <1>4, <2>2 DEF KeysOK, KeyPcs, Making, Claims
  <2> QED
    BY <2>1, <2>2 DEF KeysOK
<1>8. LiveAgrees'
  <2> SUFFICES ASSUME NEW l \in Links, live'[l] # conf[l] PROVE \E q \in Procs : LiveDue(req[q], l)'
    BY <1>2 DEF LiveAgrees
  <2>1. live'[l] = live[l] /\ l \notin due
    BY <1>6
  <2>2. PICK q \in Procs : LiveDue(req[q], l)
    BY <1>4, <2>1 DEF LiveAgrees
  <2>3. q # p
    BY <1>2, <2>1, <2>2 DEF LiveDue, Present
  <2>4. req[q].pc = "dellive" /\ req[q].in.link = l
    BY <1>5, <2>2, <2>3 DEF LiveDue
  <2> QED
    BY <1>3, <2>3, <2>4 DEF LiveDue
<1>9. ConfAgrees'
  <2>1. ASSUME NEW q \in Procs, NEW l, ConfDue(req[q], l) PROVE ConfDue(req'[q], l)
    BY <1>2, <1>3, <2>1 DEF ConfDue
  <2> QED
    BY <1>2, <1>4, <2>1 DEF ConfAgrees
<1>10. RoutesAgree'
  BY <1>2 DEF RoutesAgree, allRouteNets, Present
<1> QED
  BY <1>7, <1>8, <1>9, <1>10

\* createPeer writes the new peer's networks to wg0.conf, or refuses.
LEMMA HubCreateConf ==
    ASSUME IInv, HubInv, HubTypes', NEW p \in Procs, CreateConf(p)
    PROVE  HubInv'
<1> USE DEF IInv, AllProcs, At
<1> DEFINE l == req[p].in.link
           nets == req[p].in.meta.nets
<1>1. /\ req[p].pc = "create" /\ HasLock(p) /\ UNCHANGED <<store, live, routes>> /\ nfault' = nfault
      /\ \/ UNCHANGED conf /\ Finish(p)
         \/ conf' = [conf EXCEPT ![l] = nets] /\ req' = [req EXCEPT ![p].pc = "createlive"]
  BY DEF CreateConf, Goto
<1>a. CASE UNCHANGED conf /\ Finish(p)
  <2>1. Alone(p) /\ req'[p].pc = "idle"
    BY <1>a, Finishes
  <2>2. GoesOn(p) /\ UNCHANGED hub
    BY <1>1, <1>a, <2>1 DEF GoesOn, KeyPcs, hub
  <2> QED
    BY <1>1, <2>1, <2>2, HubStays
<1>b. CASE conf' = [conf EXCEPT ![l] = nets] /\ req' = [req EXCEPT ![p].pc = "createlive"]
  <2> SUFFICES ASSUME nfault = 0 PROVE KeysOK' /\ LiveAgrees' /\ ConfAgrees' /\ RoutesAgree'
    BY <1>1 DEF HubInv
  <2>1. /\ req'[p].pc = "createlive" /\ req'[p].in = req[p].in /\ req'[p].kind = req[p].kind
        /\ \A q \in Procs \ {p} : req'[q] = req[q]
    BY <1>b DEF ReqOK, ReqFields
  <2>2. KeysOK /\ LiveAgrees /\ ConfAgrees /\ RoutesAgree
    BY DEF HubInv
  <2>3. l \in Links /\ conf[l] = None /\ live[l] = None /\ req[p].kind = "create"
    BY <1>1, <2>2 DEF KeysOK, KeyOK, Making
  <2>4. conf'[l] = nets /\ \A k \in Links \ {l} : conf'[k] = conf[k]
    BY <1>b, <2>3 DEF HubInv, HubTypes
  <2>5. ASSUME NEW q \in Procs, q # p PROVE ~Claims(req[q], l)
    BY <1>1, <2>2, <2>5 DEF KeysOK, Making
  <2>6. KeysOK'
    <3>1. KeyOK(req[p])'
      BY <1>1, <2>1, <2>3, <2>4 DEF KeyOK, Making
    <3>2. ASSUME NEW q \in Procs, q # p PROVE KeyOK(req[q])'
      <4>1. req'[q] = req[q] /\ KeyOK(req[q]) /\ (req[q].pc \in KeyPcs => req[q].in.link # l)
        BY <2>1, <2>2, <2>5, <3>2 DEF KeysOK, Claims
      <4>2. req[q].pc \in KeyPcs /\ req[q].in.link \in Links => conf'[req[q].in.link] = conf[req[q].in.link]
        BY <2>4, <4>1
      <4> QED
        BY <1>1, <4>1, <4>2 DEF KeyOK, Making, KeyPcs
    <3>3. ASSUME NEW q \in Procs, NEW o \in Procs, q # o, Making(req'[q])
          PROVE  ~Claims(req'[o], req'[q].in.link)
      BY <1>1, <2>1, <2>2, <3>3 DEF KeysOK, KeyPcs, Making, Claims
    <3> QED
      BY <3>1, <3>2, <3>3 DEF KeysOK
  <2>7. LiveAgrees'
    <3> SUFFICES ASSUME NEW k \in Links, live[k] # conf'[k] PROVE \E q \in Procs : LiveDue(req[q], k)'
      BY <1>1 DEF LiveAgrees
    <3>1. CASE k = l
      BY <2>1, <3>1 DEF LiveDue
    <3>2. CASE k # l
      <4>1. conf'[k] = conf[k]
        BY <2>4, <3>2
      <4>2. PICK q \in Procs : LiveDue(req[q], k)
        BY <2>2, <4>1 DEF LiveAgrees
      <4>3. q # p
        BY <1>1, <4>2 DEF LiveDue
      <4> QED
        BY <1>1, <2>1, <4>1, <4>2, <4>3 DEF LiveDue
    <3> QED
      BY <3>1, <3>2
  <2>8. ConfAgrees'
    <3>1. ConfDue(req'[p], l)
      BY <2>1 DEF ConfDue
    <3>2. ASSUME NEW q \in Procs, NEW k, ConfDue(req[q], k) PROVE ConfDue(req'[q], k)
      BY <1>1, <2>1, <3>2 DEF ConfDue
    <3> QED
      BY <1>1, <2>2, <2>4, <3>1, <3>2 DEF ConfAgrees
  <2>9. RoutesAgree'
    <3>1. CASE nets # {}
      BY <2>1, <3>1 DEF RoutesAgree, RoutesDue
    <3>2. CASE nets = {}
      <4>1. allRouteNets(conf') = allRouteNets(conf)
        <5>1. ASSUME NEW n \in allRouteNets(conf') PROVE n \in allRouteNets(conf)
          BY <2>4, <3>2 DEF allRouteNets, Present
        <5>2. ASSUME NEW n \in allRouteNets(conf) PROVE n \in allRouteNets(conf')
          BY <2>3, <2>4 DEF allRouteNets, Present
        <5> QED
          BY <5>1, <5>2 DEF allRouteNets
      <4>2. ASSUME NEW q \in Procs, RoutesDue(req[q]) PROVE RoutesDue(req'[q])
        BY <1>1, <2>1, <4>2 DEF RoutesDue
      <4> QED
        BY <1>1, <2>2, <4>1, <4>2 DEF RoutesAgree
    <3> QED
      BY <3>1, <3>2
  <2> QED
    BY <2>6, <2>7, <2>8, <2>9
<1> QED
  BY <1>1, <1>a, <1>b

\* ... sets it in the kernel ...
LEMMA HubCreateLive ==
    ASSUME IInv, HubInv, HubTypes', NEW p \in Procs, CreateLive(p)
    PROVE  HubInv'
<1> USE DEF IInv, AllProcs, At
<1> SUFFICES ASSUME nfault' = 0 PROVE KeysOK' /\ LiveAgrees' /\ ConfAgrees' /\ RoutesAgree'
  BY DEF HubInv
<1> DEFINE l == req[p].in.link
<1>1. nfault = 0
  BY DEF CreateLive, NoFault, Fault, HubInv, HubTypes
<1>2. /\ req[p].pc = "createlive" /\ UNCHANGED <<store, conf, routes>>
      /\ live' = [live EXCEPT ![l] = conf[l]] /\ req' = [req EXCEPT ![p].pc = "createmeta"]
  BY <1>1 DEF CreateLive, Goto, NoFault, Fault
<1>3. /\ req'[p].pc = "createmeta" /\ req'[p].in = req[p].in /\ req'[p].kind = req[p].kind
      /\ \A q \in Procs \ {p} : req'[q] = req[q]
  BY <1>2 DEF ReqOK, ReqFields
<1>4. KeysOK /\ LiveAgrees /\ ConfAgrees /\ RoutesAgree
  BY <1>1 DEF HubInv
<1>5. l \in Links /\ conf[l] = req[p].in.meta.nets /\ req[p].kind = "create"
  BY <1>2, <1>4 DEF KeysOK, KeyOK
<1>6. live'[l] = conf[l] /\ \A k \in Links \ {l} : live'[k] = live[k]
  BY <1>2, <1>5 DEF HubInv, HubTypes
<1>7. KeysOK'
  <2>1. ASSUME NEW q \in Procs PROVE KeyOK(req[q])'
    <3>1. CASE q = p
      BY <1>2, <1>3, <1>5, <1>6, <3>1 DEF KeyOK, Making
    <3>2. CASE q # p
      <4>1. req'[q] = req[q] /\ KeyOK(req[q]) /\ (req[q].pc \in KeyPcs => req[q].in.link # l)
        BY <1>2, <1>3, <1>4, <3>2 DEF KeysOK, Claims, Making
      <4>2. req[q].pc \in KeyPcs /\ req[q].in.link \in Links => live'[req[q].in.link] = live[req[q].in.link]
        BY <1>6, <4>1
      <4> QED
        BY <1>2, <4>1, <4>2 DEF KeyOK, Making, KeyPcs
    <3> QED
      BY <3>1, <3>2
  <2>2. ASSUME NEW q \in Procs, NEW o \in Procs, q # o, Making(req'[q])
        PROVE  ~Claims(req'[o], req'[q].in.link)
    BY <1>2, <1>3, <1>4, <2>2 DEF KeysOK, KeyPcs, Making, Claims
  <2> QED
    BY <2>1, <2>2 DEF KeysOK
<1>8. LiveAgrees'
  <2> SUFFICES ASSUME NEW k \in Links, live'[k] # conf[k] PROVE \E q \in Procs : LiveDue(req[q], k)'
    BY <1>2 DEF LiveAgrees
  <2>1. k # l /\ live'[k] = live[k]
    BY <1>6
  <2>2. PICK q \in Procs : LiveDue(req[q], k)
    BY <1>4, <2>1 DEF LiveAgrees
  <2>3. q # p
    BY <1>2, <2>1, <2>2 DEF LiveDue
  <2> QED
    BY <1>2, <1>3, <2>1, <2>2, <2>3 DEF LiveDue
<1>9. ConfAgrees'
  <2>1. ASSUME NEW q \in Procs, NEW k, ConfDue(req[q], k) PROVE ConfDue(req'[q], k)
    BY <1>2, <1>3, <2>1 DEF ConfDue
  <2> QED
    BY <1>2, <1>4, <2>1 DEF ConfAgrees
<1>10. RoutesAgree'
  <2>1. ASSUME NEW q \in Procs, RoutesDue(req[q]) PROVE RoutesDue(req'[q])
    BY <1>2, <1>3, <2>1 DEF RoutesDue
  <2> QED
    BY <1>2, <1>4, <2>1 DEF RoutesAgree, allRouteNets, Present
<1> QED
  BY <1>7, <1>8, <1>9, <1>10

\* ... and records its metadata, which wg0.conf agrees with.
LEMMA HubCreateMeta ==
    ASSUME IInv, HubInv, HubTypes', NEW p \in Procs, CreateMeta(p)
    PROVE  HubInv'
<1> USE DEF IInv, AllProcs, At
<1> SUFFICES ASSUME nfault' = 0 PROVE KeysOK' /\ LiveAgrees' /\ ConfAgrees' /\ RoutesAgree'
  BY DEF HubInv
<1> DEFINE l == req[p].in.link
           m == req[p].in.meta
<1>1. nfault = 0
  BY DEF CreateMeta
<1>2. /\ req[p].pc = "createmeta" /\ UNCHANGED <<conf, live, routes>>
      /\ store' = [store EXCEPT ![l] = m]
      /\ req' = [req EXCEPT ![p].pc = IF m.nets = {} THEN "agents" ELSE "hub"]
  BY DEF CreateMeta, Goto
<1>3. /\ req'[p].pc = IF m.nets = {} THEN "agents" ELSE "hub"
      /\ \A q \in Procs \ {p} : req'[q] = req[q]
  BY <1>2 DEF ReqOK, ReqFields
<1>4. KeysOK /\ LiveAgrees /\ ConfAgrees /\ RoutesAgree
  BY <1>1 DEF HubInv
<1>5. l \in Links /\ conf[l] = m.nets
  BY <1>2, <1>4 DEF KeysOK, KeyOK
<1>6. store'[l] = m /\ \A k \in Links \ {l} : store'[k] = store[k]
  BY <1>2, <1>5 DEF HubInv, HubTypes
<1>7. KeysOK'
  <2>1. ASSUME NEW q \in Procs PROVE KeyOK(req[q])'
    BY <1>2, <1>3, <1>4 DEF KeysOK, KeyOK, Making
  <2>2. ASSUME NEW q \in Procs, NEW o \in Procs, q # o, Making(req'[q])
        PROVE  ~Claims(req'[o], req'[q].in.link)
    BY <1>2, <1>3, <1>4, <2>2 DEF KeysOK, KeyPcs, Making, Claims
  <2> QED
    BY <2>1, <2>2 DEF KeysOK
<1>8. LiveAgrees'
  <2>1. ASSUME NEW q \in Procs, NEW k, LiveDue(req[q], k) PROVE LiveDue(req[q], k)'
    BY <1>2, <1>3, <2>1 DEF LiveDue
  <2> QED
    BY <1>2, <1>4, <2>1 DEF LiveAgrees
<1>9. ConfAgrees'
  <2> SUFFICES ASSUME NEW k \in Links, conf[k] # None, store'[k] # None, conf[k] # store'[k].nets
               PROVE  \E q \in Procs : ConfDue(req'[q], k)
    BY <1>2 DEF ConfAgrees
  <2>1. k # l /\ store'[k] = store[k]
    BY <1>5, <1>6
  <2>2. PICK q \in Procs : ConfDue(req[q], k)
    BY <1>4, <2>1 DEF ConfAgrees
  <2>3. q # p
    BY <1>2, <2>1, <2>2 DEF ConfDue
  <2> QED
    BY <1>3, <2>2, <2>3
<1>10. RoutesAgree'
  <2>1. ASSUME NEW q \in Procs, RoutesDue(req[q]) PROVE RoutesDue(req'[q])
    BY <1>2, <1>3, <2>1 DEF RoutesDue
  <2> QED
    BY <1>2, <1>4, <2>1 DEF RoutesAgree, allRouteNets, Present
<1> QED
  BY <1>7, <1>8, <1>9, <1>10

\* deletePeer takes the peer out of wg0.conf, or refuses.
LEMMA HubDeleteConf ==
    ASSUME IInv, HubInv, HubTypes', NEW p \in Procs, DeleteConf(p)
    PROVE  HubInv'
<1> USE DEF IInv, AllProcs, At
<1> DEFINE l == req[p].in.link
<1>1. /\ req[p].pc = "delconf" /\ HasLock(p) /\ UNCHANGED <<store, live, routes>>
      /\ nfault' = nfault \/ nfault' = nfault + 1
      /\ \/ UNCHANGED conf /\ Finish(p)
         \/ nfault' = nfault + 1
         \/ /\ conf' = [conf EXCEPT ![l] = None] /\ nfault' = nfault
            /\ \E todo : req' = [req EXCEPT ![p].pc = "dellive", ![p].todo = todo]
  BY DEF DeleteConf, NoFault, Fault
<1>a. CASE UNCHANGED conf /\ Finish(p)
  <2>1. Alone(p) /\ req'[p].pc = "idle"
    BY <1>a, Finishes
  <2>2. GoesOn(p) /\ UNCHANGED hub
    BY <1>1, <1>a, <2>1 DEF GoesOn, KeyPcs, hub
  <2> QED
    BY <1>1, <2>1, <2>2, HubStays
<1>b. CASE /\ conf' = [conf EXCEPT ![l] = None] /\ nfault' = nfault
           /\ \E todo : req' = [req EXCEPT ![p].pc = "dellive", ![p].todo = todo]
  <2> SUFFICES ASSUME nfault = 0 PROVE KeysOK' /\ LiveAgrees' /\ ConfAgrees' /\ RoutesAgree'
    BY <1>b DEF HubInv
  <2>1. /\ req'[p].pc = "dellive" /\ req'[p].in = req[p].in /\ req'[p].kind = req[p].kind
        /\ \A q \in Procs \ {p} : req'[q] = req[q]
    BY <1>b DEF ReqOK, ReqFields
  <2>2. KeysOK /\ LiveAgrees /\ ConfAgrees
    BY DEF HubInv
  <2>3. \A k \in Links : conf'[k] = IF k = l THEN None ELSE conf[k]
    BY <1>b DEF HubInv, HubTypes
  <2>4. ASSUME NEW q \in Procs, q # p
        PROVE  req[q].pc \notin {"createlive", "createmeta", "hublive"}
    BY <1>1, <2>4, OneInside DEF Inside
  <2>5. KeysOK'
    <3>1. KeyOK(req[p])'
      <4>1. KeyOK(req[p])
        BY <2>2 DEF KeysOK
      <4> QED
        BY <1>1, <2>1, <2>3, <4>1 DEF KeyOK, Making
    <3>2. ASSUME NEW q \in Procs, q # p PROVE KeyOK(req[q])'
      <4>1. req'[q] = req[q] /\ KeyOK(req[q]) /\ req[q].pc \notin {"createlive", "createmeta"}
        BY <2>1, <2>2, <2>4, <3>2 DEF KeysOK
      <4>2. req[q].pc \in {"create", "dellive"} /\ req[q].in.link \in Links => conf'[req[q].in.link] = None
        BY <2>3, <4>1 DEF KeyOK
      <4> QED
        BY <1>1, <4>1, <4>2 DEF KeyOK, Making
    <3>3. ASSUME NEW q \in Procs, NEW o \in Procs, q # o, Making(req'[q])
          PROVE  ~Claims(req'[o], req'[q].in.link)
      BY <1>1, <2>1, <2>2, <3>3 DEF KeysOK, KeyPcs, Making, Claims
    <3> QED
      BY <3>1, <3>2, <3>3 DEF KeysOK
  <2>6. LiveAgrees'
    <3> SUFFICES ASSUME NEW k \in Links, live[k] # conf'[k] PROVE \E q \in Procs : LiveDue(req[q], k)'
      BY <1>1 DEF LiveAgrees
    <3>1. CASE k = l
      BY <2>1, <3>1 DEF LiveDue
    <3>2. CASE k # l
      <4>1. conf'[k] = conf[k]
        BY <2>3, <3>2
      <4>2. PICK q \in Procs : LiveDue(req[q], k)
        BY <2>2, <4>1 DEF LiveAgrees
      <4>3. q # p
        BY <1>1, <4>2 DEF LiveDue
      <4> QED
        BY <1>1, <2>1, <4>1, <4>2, <4>3 DEF LiveDue
    <3> QED
      BY <3>1, <3>2
  <2>7. ConfAgrees'
    <3>1. ASSUME NEW q \in Procs, NEW k, ConfDue(req[q], k) PROVE ConfDue(req'[q], k)
      BY <1>1, <2>1, <3>1 DEF ConfDue
    <3> QED
      BY <1>1, <2>2, <2>3, <3>1 DEF ConfAgrees
  <2>8. RoutesAgree'
    BY <2>1 DEF RoutesAgree, RoutesDue
  <2> QED
    BY <2>5, <2>6, <2>7, <2>8
<1>c. CASE nfault' = nfault + 1
  BY <1>c DEF HubInv, HubTypes
<1> QED
  BY <1>1, <1>a, <1>b, <1>c

\* ... out of the kernel, where nobody can have added it again ...
LEMMA HubDeleteLive ==
    ASSUME IInv, HubInv, HubTypes', NEW p \in Procs, DeleteLive(p)
    PROVE  HubInv'
<1> USE DEF IInv, AllProcs, At
<1> SUFFICES ASSUME nfault' = 0 PROVE KeysOK' /\ LiveAgrees' /\ ConfAgrees' /\ RoutesAgree'
  BY DEF HubInv
<1> DEFINE l == req[p].in.link
<1>1. nfault = 0
  BY DEF DeleteLive, NoFault, Fault, HubInv, HubTypes
<1>2. /\ req[p].pc = "dellive" /\ UNCHANGED <<store, conf, routes>>
      /\ live' = [live EXCEPT ![l] = None] /\ req' = [req EXCEPT ![p].pc = "delmeta"]
  BY <1>1 DEF DeleteLive, Goto, NoFault, Fault
<1>3. req'[p].pc = "delmeta" /\ \A q \in Procs \ {p} : req'[q] = req[q]
  BY <1>2 DEF ReqOK, ReqFields
<1>4. KeysOK /\ LiveAgrees /\ ConfAgrees /\ RoutesAgree
  BY <1>1 DEF HubInv
<1>5. l \in Links => conf[l] = None
  BY <1>2, <1>4 DEF KeysOK, KeyOK
<1>6. \A k \in Links : live'[k] = IF k = l THEN None ELSE live[k]
  BY <1>2 DEF HubInv, HubTypes
<1>7. KeysOK'
  <2>1. ASSUME NEW q \in Procs PROVE KeyOK(req[q])'
    <3>1. CASE q = p
      BY <1>3, <3>1 DEF KeyOK, Making
    <3>2. CASE q # p
      <4>1. req'[q] = req[q] /\ KeyOK(req[q])
        BY <1>3, <1>4, <3>2 DEF KeysOK
      <4>2. /\ Making(req[q]) => live'[req[q].in.link] = None
            /\ req[q].pc = "createmeta" => live'[req[q].in.link] = conf[req[q].in.link]
        BY <1>5, <1>6, <4>1 DEF KeyOK, Making
      <4> QED
        BY <1>2, <4>1, <4>2 DEF KeyOK, Making
    <3> QED
      BY <3>1, <3>2
  <2>2. ASSUME NEW q \in Procs, NEW o \in Procs, q # o, Making(req'[q])
        PROVE  ~Claims(req'[o], req'[q].in.link)
    BY <1>2, <1>3, <1>4, <2>2 DEF KeysOK, KeyPcs, Making, Claims
  <2> QED
    BY <2>1, <2>2 DEF KeysOK
<1>8. LiveAgrees'
  <2> SUFFICES ASSUME NEW k \in Links, live'[k] # conf[k] PROVE \E q \in Procs : LiveDue(req[q], k)'
    BY <1>2 DEF LiveAgrees
  <2>1. k # l /\ live'[k] = live[k]
    BY <1>5, <1>6
  <2>2. PICK q \in Procs : LiveDue(req[q], k)
    BY <1>4, <2>1 DEF LiveAgrees
  <2>3. q # p
    BY <1>2, <2>1, <2>2 DEF LiveDue
  <2> QED
    BY <1>2, <1>3, <2>1, <2>2, <2>3 DEF LiveDue
<1>9. ConfAgrees'
  <2>1. ASSUME NEW q \in Procs, NEW k, ConfDue(req[q], k) PROVE ConfDue(req'[q], k)
    BY <1>2, <1>3, <2>1 DEF ConfDue
  <2> QED
    BY <1>2, <1>4, <2>1 DEF ConfAgrees
<1>10. RoutesAgree'
  BY <1>3 DEF RoutesAgree, RoutesDue
<1> QED
  BY <1>7, <1>8, <1>9, <1>10

\* ... and out of the store.
LEMMA HubDeleteMeta ==
    ASSUME IInv, HubInv, HubTypes', NEW p \in Procs, DeleteMeta(p)
    PROVE  HubInv'
<1> USE DEF IInv, AllProcs, At
<1> SUFFICES ASSUME nfault' = 0 PROVE KeysOK' /\ LiveAgrees' /\ ConfAgrees' /\ RoutesAgree'
  BY DEF HubInv
<1>1. nfault = 0
  BY DEF DeleteMeta
<1>2. /\ req[p].pc = "delmeta" /\ UNCHANGED <<conf, live, routes>>
      /\ store' = [store EXCEPT ![req[p].in.link] = None] /\ req' = [req EXCEPT ![p].pc = "delagents"]
  BY DEF DeleteMeta, Goto
<1>3. req'[p].pc = "delagents" /\ \A q \in Procs \ {p} : req'[q] = req[q]
  BY <1>2 DEF ReqOK, ReqFields
<1>4. KeysOK /\ LiveAgrees /\ ConfAgrees /\ RoutesAgree
  BY <1>1 DEF HubInv
<1>6. \A k \in Links : store'[k] = IF k = req[p].in.link THEN None ELSE store[k]
  BY <1>2 DEF HubInv, HubTypes
<1>7. KeysOK'
  <2>1. ASSUME NEW q \in Procs PROVE KeyOK(req[q])'
    BY <1>2, <1>3, <1>4 DEF KeysOK, KeyOK, Making
  <2>2. ASSUME NEW q \in Procs, NEW o \in Procs, q # o, Making(req'[q])
        PROVE  ~Claims(req'[o], req'[q].in.link)
    BY <1>2, <1>3, <1>4, <2>2 DEF KeysOK, KeyPcs, Making, Claims
  <2> QED
    BY <2>1, <2>2 DEF KeysOK
<1>8. LiveAgrees'
  <2>1. ASSUME NEW q \in Procs, NEW k, LiveDue(req[q], k) PROVE LiveDue(req[q], k)'
    BY <1>2, <1>3, <2>1 DEF LiveDue
  <2> QED
    BY <1>2, <1>4, <2>1 DEF LiveAgrees
<1>9. ConfAgrees'
  <2>1. ASSUME NEW q \in Procs, NEW k, ConfDue(req[q], k) PROVE ConfDue(req'[q], k)
    BY <1>2, <1>3, <2>1 DEF ConfDue
  <2> QED
    BY <1>2, <1>4, <1>6, <2>1 DEF ConfAgrees
<1>10. RoutesAgree'
  BY <1>3 DEF RoutesAgree, RoutesDue
<1> QED
  BY <1>7, <1>8, <1>9, <1>10

\* wg0.conf and the kernel start in step with the store.
LEMMA HubInitially == Init => HubInv
<1> SUFFICES ASSUME Init PROVE HubInv
  OBVIOUS
<1>1. HubTypes
  BY MeshStart DEF Init, MeshStart, HubTypes
<1>2. \A p \in Procs : req[p].pc = "idle"
  BY DEF Init, Idle, AllProcs
<1>3. KeysOK
  BY <1>2 DEF KeysOK, KeyOK, Making
<1>4. LiveAgrees /\ ConfAgrees /\ RoutesAgree
  BY DEF Init, LiveAgrees, ConfAgrees, RoutesAgree
<1> QED
  BY <1>1, <1>3, <1>4 DEF HubInv

\* A step of any kind keeps what is known of the hub.
LEMMA HubInductive == IInv /\ HubInv /\ [Next]_vars => HubInv'
<1> SUFFICES ASSUME IInv, HubInv, [Next]_vars PROVE HubInv'
  OBVIOUS
<1>1. HubTypes'
  BY HubTyped DEF HubInv
<1>2. ASSUME NEW p \in Procs, Request(p) PROVE HubInv'
  BY <1>1, <1>2, HubRequested
<1>3. ASSUME NEW p \in Procs, Handle(p) PROVE HubInv'
  BY <1>1, <1>3, HubUntouched, HubWritten, HubConfSynced, HubLiveSynced, HubCreateConf, HubCreateLive,
     HubCreateMeta, HubDeleteConf, HubDeleteLive, HubDeleteMeta DEF Handle
<1>4. ASSUME NEW p \in AllProcs, Sync(p) PROVE HubInv'
  BY <1>1, <1>4, HubSyncs
<1>5. CASE Reconcile \/ Crash \/ Reboot
  BY <1>1, <1>5, HubRepairs
<1>6. CASE UNCHANGED vars
  <2>1. Timer \in AllProcs /\ Alone(Timer) /\ GoesOn(Timer) /\ UNCHANGED hub /\ nfault' = nfault
    BY <1>6 DEF vars, AllProcs, Alone, GoesOn, hub
  <2> QED
    BY <1>1, <2>1, HubStays
<1> QED
  BY <1>2, <1>3, <1>4, <1>5, <1>6 DEF Next

\* Without faults and with no request under way, whatever the requests interleaved with,
\* the kernel's peers are those of wg0.conf, their networks those of the metadata store,
\* and the routes those of wg0.conf (syncHubConfCore, createPeer, deletePeer).
THEOREM CopiesAgree == Spec => []HubAgrees
<1>1. HubInv => HubAgrees
  <2> SUFFICES ASSUME HubInv, Quiet, nfault = 0
               PROVE  /\ live = conf
                      /\ \A l \in Present(conf) : store[l] # None => conf[l] = store[l].nets
                      /\ routes = allRouteNets(conf)
    BY DEF HubAgrees
  <2>1. \A p \in Procs : req[p].pc = "idle"
    BY DEF Quiet, At, AllProcs
  <2>2. \A l \in Links : live[l] = conf[l]
    BY <2>1 DEF HubInv, LiveAgrees, LiveDue
  <2>3. live = conf
    BY <2>2 DEF HubInv, HubTypes
  <2>4. \A l \in Present(conf) : store[l] # None => conf[l] = store[l].nets
    BY <2>1 DEF HubInv, ConfAgrees, ConfDue, Present
  <2>5. routes = allRouteNets(conf)
    BY <2>1 DEF HubInv, RoutesAgree, RoutesDue
  <2> QED
    BY <2>3, <2>4, <2>5
<1> QED
  BY <1>1, Inductive, HubInitially, HubInductive, PTL DEF Spec
=============================================================================
