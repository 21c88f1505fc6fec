------------------------- MODULE SiteIsolationProofs -------------------------
(***************************************************************************)
(* Proofs about SiteIsolation for every set of links, every value of the   *)
(* bounds and every choice of faults.                                      *)
(***************************************************************************)
EXTENDS SiteIsolation, TLAPS

-----------------------------------------------------------------------------
(* What the pure rules return *)

(* A live status record has a type, networks and tunnel addresses. *)
LEMMA RecordType ==
    ASSUME NEW l \in Links, NEW m \in Entry \cup {None}, NEW p \in Peer
    PROVE  buildLinkRecord(l, m, p) \in View
BY DEF buildLinkRecord, classifyLinkType, Entry, Peer, View, Types

(* The live status maps each link to a record or to nothing. *)
LEMMA StatusType ==
    ASSUME meta \in Maps(Entry), peer \in Maps(Peer)
    PROVE  getStatus \in Maps(View)
BY RecordType DEF getStatus, Maps

(* The live cache keeps its shape when a status is merged into it. *)
LEMMA CacheType ==
    ASSUME NEW cache \in Maps(View), NEW live \in Maps(View)
    PROVE  CacheLive(cache, live) \in Maps(View)
BY DEF CacheLive, Maps

(* loadLinks returns links in one shape. *)
LEMMA LoadType ==
    ASSUME NEW m \in Maps(Entry), NEW live \in Maps(View), NEW cache \in Maps(View)
    PROVE  loadLinks(m, live, cache) \in Maps(Link)
<1> DEFINE v(l) == IF cache[l] # None THEN cache[l]
                   ELSE [type |-> "none", nets |-> {}, tun |-> {}]
<1>1. \A l \in Links : v(l) \in View
  BY DEF Maps, View, Types
<1> HIDE DEF v
<1>2. ASSUME NEW l \in Links, m[l] # None
      PROVE  [type |-> IF m[l].type # "none" THEN m[l].type ELSE v(l).type,
              nets |-> IF m[l].nets # {} THEN m[l].nets ELSE v(l).nets,
              tun  |-> v(l).tun,
              live |-> cache[l] # None] \in Link
  <2>1. m[l] \in Entry
    BY <1>2 DEF Maps
  <2>2. (cache[l] # None) \in BOOLEAN
    OBVIOUS
  <2> QED
    BY <2>1, <2>2, <1>1 DEF Entry, View, Link
<1>3. ASSUME NEW l \in Links, live[l] # None
      PROVE  [type |-> live[l].type, nets |-> live[l].nets,
              tun  |-> live[l].tun,  live |-> TRUE] \in Link
  BY <1>3 DEF Maps, View, Link
<1> QED
  BY <1>2, <1>3 DEF loadLinks, Maps, v

(* Holding vanished links does not change the shape. *)
LEMMA HeldType ==
    ASSUME lastLinks \in Maps(Link), NEW ps, NEW links \in Maps(Link)
    PROVE  withHeldLinks(ps, links) \in Maps(Link)
BY DEF withHeldLinks, Maps

(* A plan is a table of stored pairs whose sets hold covered addresses only. *)
LEMMA ScriptType ==
    ASSUME NEW ps \in SUBSET Pairs, NEW links \in Maps(Link)
    PROVE  buildSiteIsolationNft(ps, links) \in Script
BY DEF buildSiteIsolationNft, planSiteIsolation, siteNetworks, Script

(* A streak stays within its cap. *)
LEMMA StreakType ==
    ASSUME missing \in [Links -> 0 .. HOLD_APPLIES + 1], NEW ps, NEW links
    PROVE  bumpStreaks(ps, links) \in [Links -> 0 .. HOLD_APPLIES + 1]
BY DEF bumpStreaks, HOLD_APPLIES

(* The locals of an apply or save that is not running have the right shape. *)
LEMMA NoRunType == NoRun \in RunType /\ NoRep \in RepType
BY DEF NoRun, NoRep, RunType, RepType, NoLinks, Empty, Maps, Script

-----------------------------------------------------------------------------
(* Type correctness *)

(* The synchronous part of an apply keeps the types. *)
LEMMA PlanType ==
    ASSUME TypeOK,
           NEW op \in {"start", "timer", "replace"}, NEW ps \in SUBSET Pairs,
           NEW links \in Maps(Link), Plan(op, ps, links)
    PROVE  /\ missing' \in [Links -> 0 .. HOLD_APPLIES + 1]
           /\ err' \in {"none", "input", "links-unresolved", "nft"}
           /\ run' \in RunType /\ rep' \in RepType
<1> DEFINE held == withHeldLinks(ps, links)
           new  == buildSiteIsolationNft(ps, held)
<1>1. held \in Maps(Link)
  BY HeldType DEF TypeOK
<1>2. new \in Script
  BY <1>1, ScriptType
<1>3. missing' \in [Links -> 0 .. HOLD_APPLIES + 1]
  BY StreakType DEF Plan, TypeOK
<1>4. NoLinks \in Maps(Entry)
  BY DEF NoLinks, Maps
<1>5. CASE linksUnresolved(ps, held)
  BY <1>3, <1>5, NoRunType DEF Plan, TypeOK
<1>6. CASE ~linksUnresolved(ps, held)
  <2>1. run' \in RunType
    <3>1. \E pc \in {"list", "nft"} :
             run' = [pc |-> pc, op |-> op, pairs |-> ps, meta |-> NoLinks,
                     links |-> held, script |-> new]
      BY <1>6 DEF Plan
    <3> QED
      BY <3>1, <1>1, <1>2, <1>4 DEF RunType
  <2>2. rep' \in RepType
    BY <1>6 DEF Plan, TypeOK, RepType
  <2> QED
    BY <1>3, <1>6, <2>1, <2>2 DEF Plan, TypeOK
<1> QED
  BY <1>5, <1>6

(* An apply or a save that ends leaves well-typed locals behind. *)
LEMMA DoneType ==
    ASSUME TypeOK, Done
    PROVE  run' \in RunType /\ rep' \in RepType
BY NoRunType DEF Done, TypeOK

(* Every step keeps the types. *)
LEMMA TypeStep ==
    ASSUME TypeOK, [Next]_vars
    PROVE  TypeOK'
<1> USE DEF store, applier
<1> DEFINE live == getStatus
           now  == CacheLive(liveCache, live)
<1>0. live \in Maps(View) /\ now \in Maps(View)
  BY StatusType, CacheType DEF TypeOK
<1> HIDE DEF live, now
<1>1. CASE StartApply
  <2>1. CASE Head(queue) = "replace" /\ Plan("replace", rep.body, rep.links)
    <3>1. rep.body \in SUBSET Pairs /\ rep.links \in Maps(Link)
      BY DEF TypeOK, RepType
    <3>2. queue' \in Seq({"start", "timer", "replace"})
      BY <1>1 DEF StartApply, TypeOK
    <3> QED
      BY <2>1, <3>1, <3>2, PlanType, <1>1 DEF StartApply, TypeOK
  <2>2. CASE Head(queue) # "replace"
    <3>1. Head(queue) \in {"start", "timer", "replace"}
      BY <1>1 DEF StartApply, TypeOK
    <3>2. run' = [NoRun EXCEPT !.pc = "meta", !.op = Head(queue), !.pairs = pairs]
      BY <1>1, <2>2 DEF StartApply
    <3>3. run' \in RunType
      BY <3>1, <3>2, NoRunType DEF RunType, TypeOK
    <3> QED
      BY <1>1, <2>2, <3>3 DEF StartApply, TypeOK
  <2> QED
    BY <1>1, <2>1, <2>2 DEF StartApply
<1>2. CASE ApplyReadMeta
  <2>1. CASE readable
    BY <1>2, <2>1 DEF ApplyReadMeta, TypeOK, RunType
  <2>2. CASE ~readable
    BY <1>2, <2>2, DoneType DEF ApplyReadMeta, TypeOK
  <2> QED
    BY <2>1, <2>2
<1>3. CASE ApplyPlan
  <2>1. liveCache' = now
    BY <1>3 DEF ApplyPlan, now, live
  <2>2. Plan(run.op, run.pairs, loadLinks(run.meta, live, now))
    BY <1>3, <2>1 DEF ApplyPlan, live
  <2>3. run.op \in {"start", "timer", "replace"} /\ run.pairs \in SUBSET Pairs
        /\ run.meta \in Maps(Entry)
    BY DEF TypeOK, RunType
  <2>4. loadLinks(run.meta, live, now) \in Maps(Link)
    BY <2>3, <1>0, LoadType
  <2> QED
    BY <1>0, <1>3, <2>1, <2>2, <2>3, <2>4, PlanType DEF ApplyPlan, TypeOK
<1>4. CASE ApplyList
  <2>1. CASE table # None /\ persisted
    BY <1>4, <2>1, DoneType DEF ApplyList, TypeOK
  <2>2. CASE ~(table # None /\ persisted)
    BY <1>4, <2>2 DEF ApplyList, TypeOK, RunType
  <2> QED
    BY <2>1, <2>2
<1>5. CASE ApplyNft
  <2>1. run.script \in Script /\ run.links \in Maps(Link)
    BY DEF TypeOK, RunType
  <2>2. lastLinks' \in Maps(Link)
    BY <1>5, <2>1 DEF ApplyNft, Maps
  <2>3. run' \in RunType
    BY <1>5 DEF ApplyNft, TypeOK, RunType
  <2> QED
    BY <1>5, <2>1, <2>2, <2>3 DEF ApplyNft, TypeOK
<1>6. CASE ApplyNftFails
  <2>1. run.script \in Script
    BY DEF TypeOK, RunType
  <2> QED
    BY <1>6, <2>1, DoneType DEF ApplyNftFails, TypeOK
<1>7. CASE ApplyPersist \/ ApplyPersistFails
  <2>1. run.script \in Script
    BY DEF TypeOK, RunType
  <2>2. persisted' \in BOOLEAN
    BY <1>7, Zenon DEF ApplyPersist, ApplyPersistFails
  <2> QED
    BY <1>7, <2>1, <2>2, DoneType DEF ApplyPersist, ApplyPersistFails, TypeOK
<1>8. CASE Trigger \/ TimerFires
  <2>1. scheduled' \in BOOLEAN
    BY <1>8, Zenon DEF Trigger, TimerFires
  <2>2. queue' \in Seq({"start", "timer", "replace"})
    BY <1>8 DEF Trigger, TimerFires, TypeOK
  <2> QED
    BY <1>8, <2>1, <2>2 DEF Trigger, TimerFires, TypeOK
<1>9. ASSUME NEW body \in Bodies, ReplaceStart(body)
      PROVE  TypeOK'
  <2>1. body \in SUBSET Pairs
    BY ConstantsAssumption
  <2>2. rep' \in RepType
    BY <1>9, <2>1, NoRunType DEF ReplaceStart, RepType, TypeOK
  <2> QED
    BY <1>9, <2>2 DEF ReplaceStart, TypeOK
<1>10. CASE ReplaceLinks
  <2>1. liveCache' = now
    BY <1>10 DEF ReplaceLinks, now, live
  <2> DEFINE links == loadLinks(rep.meta, live, now)
  <2>2. links \in Maps(Link)
    BY <1>0, LoadType DEF TypeOK, RepType
  <2>3. \/ rep' = [rep EXCEPT !.pc = "commit", !.meta = NoLinks, !.links = links]
        \/ rep' = NoRep
    BY <1>10, <2>1 DEF ReplaceLinks, live
  <2> HIDE DEF links
  <2>4. rep' \in RepType
    <3>1. NoLinks \in Maps(Entry)
      BY DEF NoLinks, Maps
    <3> QED
      BY <2>2, <2>3, <3>1, NoRunType DEF TypeOK, RepType
  <2> QED
    BY <1>0, <1>10, <2>1, <2>4 DEF ReplaceLinks, TypeOK
<1>11. CASE ReplaceCommit \/ ReplaceApply
  <2>1. rep' \in RepType
    BY <1>11 DEF ReplaceCommit, ReplaceApply, TypeOK, RepType
  <2>2. pairs' \in SUBSET Pairs
    BY <1>11 DEF ReplaceCommit, ReplaceApply, TypeOK, RepType
  <2>3. queue' \in Seq({"start", "timer", "replace"})
    BY <1>11 DEF ReplaceCommit, ReplaceApply, TypeOK
  <2> QED
    BY <1>11, <2>1, <2>2, <2>3 DEF ReplaceCommit, ReplaceApply, TypeOK
<1>12. CASE OverviewReadStatus \/ OverviewFillCache
  <2>1. obs' \in Maps(View) \cup {None}
    BY <1>0, <1>12 DEF OverviewReadStatus, OverviewFillCache, live
  <2>2. liveCache' \in Maps(View)
    BY <1>12, CacheType DEF OverviewReadStatus, OverviewFillCache, TypeOK
  <2> QED
    BY <1>12, <2>1, <2>2 DEF OverviewReadStatus, OverviewFillCache, TypeOK
<1>13. ASSUME NEW l \in Links, WriteMeta(l) \/ SetPeer(l)
       PROVE  TypeOK'
  <2>1. Entries[l] \subseteq Entry \cup {None} /\ PeersOf[l] \subseteq Peer \cup {None}
    BY ConstantsAssumption
  <2>2. meta' \in Maps(Entry) /\ peer' \in Maps(Peer)
    BY <1>13, <2>1 DEF WriteMeta, SetPeer, Maps, TypeOK
  <2> QED
    BY <1>13, <2>2 DEF WriteMeta, SetPeer, Change, TypeOK
<1>14. CASE SetOutage \/ SetReadable
  <2>1. readable' \in BOOLEAN
    BY <1>14, Zenon DEF SetOutage, SetReadable, TypeOK
  <2>2. outage' \in SUBSET Links
    BY <1>14, ConstantsAssumption DEF SetOutage, SetReadable, TypeOK
  <2> QED
    BY <1>14, <2>1, <2>2 DEF SetOutage, SetReadable, Change, TypeOK
<1>15. CASE FlushRuleset \/ RestartNftables
  BY <1>15 DEF FlushRuleset, RestartNftables, Fault, TypeOK
<1>16. CASE RestartBackend
  <2>1. liveCache' \in Maps(View) /\ lastLinks' \in Maps(Link)
        /\ missing' \in [Links -> 0 .. HOLD_APPLIES + 1]
    BY <1>16 DEF RestartBackend, NoLinks, Maps, HOLD_APPLIES
  <2>2. queue' \in Seq({"start", "timer", "replace"})
    BY <1>16 DEF RestartBackend
  <2>3. persisted' \in BOOLEAN /\ scheduled' \in BOOLEAN
    BY <1>16, Zenon DEF RestartBackend
  <2> QED
    BY <1>16, <2>1, <2>2, <2>3, NoRunType DEF RestartBackend, Fault, TypeOK
<1>17. CASE UNCHANGED vars
  BY <1>17 DEF vars, TypeOK
<1> QED
  BY <1>1, <1>2, <1>3, <1>4, <1>5, <1>6, <1>7, <1>8, <1>9, <1>10, <1>11, <1>12,
     <1>13, <1>14, <1>15, <1>16, <1>17
     DEF Next, ApplyStep, ReplaceStep

(* The initial states are well-typed. *)
LEMMA TypeInit == Init => TypeOK
<1> SUFFICES ASSUME Init PROVE TypeOK
  OBVIOUS
<1>1. meta \in Maps(Entry) /\ peer \in Maps(Peer)
  BY ConstantsAssumption DEF Init, Maps
<1>2. liveCache \in Maps(View) /\ lastLinks \in Maps(Link)
      /\ missing \in [Links -> 0 .. HOLD_APPLIES + 1]
  BY DEF Init, NoLinks, Maps, HOLD_APPLIES
<1>3. queue \in Seq({"start", "timer", "replace"})
  BY DEF Init
<1> QED
  BY <1>1, <1>2, <1>3, NoRunType DEF Init, TypeOK

(* Every reachable state of the site isolation feature is well-typed; in      *)
(* particular nothing but covered IPv4 networks ever reaches a script, the    *)
(* kernel's table or the boot copy.                                           *)
THEOREM TypeCorrect == Spec => []TypeOK
BY TypeInit, TypeStep, PTL DEF Spec

-----------------------------------------------------------------------------
(* The inductive invariant *)

GoodEntry(m) == m # None /\ m.type # "client" /\ (m.nets = {} \/ m.nets \cap Covered # {})
GoodView(v) == v # None => v.type = "site" /\ v.nets \cap Covered # {}
GoodLink(k) == /\ k # None
               /\ k.live = FALSE \/ (k.type = "site" /\ k.nets \cap Covered # {})

(* Whatever the code remembers of a link that has always been recorded as a  *)
(* site shows it as one, or admits that it has no live view.                 *)
ViewInv ==
    \A l \in steady :
        /\ RecordedSite(l, meta[l], peer[l])
        /\ GoodView(liveCache[l])
        /\ obs # None => GoodView(obs[l])
        /\ run.pc = "status" => GoodEntry(run.meta[l])
        /\ rep.pc = "status" => GoodEntry(rep.meta[l])
        /\ rep.pc \in {"commit", "stored", "queued"} => GoodLink(rep.links[l])

(* A script that is about to be loaded or written has every pair it was      *)
(* given whose links have always been recorded as sites, and no other pair.  *)
Covers(s, ps) == /\ s.pairs \subseteq ps
                 /\ \A p \in ps : p \subseteq steady => p \in s.pairs

PlanInv == run.pc \in {"list", "nft", "persist"} => Covers(run.script, run.pairs)

(* Who works on which pairs: one save at a time, at most one forced apply of *)
(* it in the chain, and an apply has read the stored pairs or, while a save  *)
(* is in flight, possibly the ones before it.                                *)
OrderInv ==
    /\ \A i \in 1 .. Len(queue) : queue[i] = "replace" => rep.pc = "queued"
    /\ \A i, j \in 1 .. Len(queue) : queue[i] = "replace" /\ queue[j] = "replace" => i = j
    /\ rep.pc = "applying" <=> run.op = "replace"
    /\ run.op = "replace" => run.pc \in {"nft", "persist"} /\ run.pairs = pairs
    /\ SaveInFlight => pairs = rep.body
    /\ run.pc # "idle" => run.pairs = pairs \/ (SaveInFlight /\ run.pairs = rep.before)
    /\ run.pc \in {"list", "persist"} => run.script = script

Inv == TypeOK /\ ViewInv /\ PlanInv /\ OrderInv /\ AppliedMatchesStored /\ BootCopyCurrent

-----------------------------------------------------------------------------
(* What the rules do with links that have always been recorded as sites *)

(* The live status shows such a link as a site or not at all. *)
LEMMA StatusGood ==
    ASSUME ViewInv, NEW l \in steady, l \in Links
    PROVE  GoodView(getStatus[l])
BY DEF ViewInv, GoodView, getStatus, RecordedSite

(* The metadata entry of such a link has no other type and no useless list. *)
LEMMA EntryGood ==
    ASSUME TypeOK, ViewInv, NEW l \in steady
    PROVE  GoodEntry(meta[l])
BY DEF ViewInv, GoodEntry, RecordedSite, buildLinkRecord, TypeOK

(* Merging a status into the cache keeps what is known of such a link. *)
LEMMA CacheGood ==
    ASSUME NEW cache, NEW live, NEW l \in Links, GoodView(cache[l]), GoodView(live[l])
    PROVE  GoodView(CacheLive(cache, live)[l])
BY DEF CacheLive, GoodView

(* loadLinks returns such a link as a site, or without a live view. *)
LEMMA LoadGood ==
    ASSUME NEW m \in Maps(Entry), NEW live \in Maps(View), NEW cache \in Maps(View),
           NEW l \in Links, GoodEntry(m[l]), GoodView(cache[l])
    PROVE  GoodLink(loadLinks(m, live, cache)[l])
<1> DEFINE k == loadLinks(m, live, cache)[l]
<1>1. m[l] \in Entry /\ m[l] # None
  BY DEF GoodEntry, Maps
<1>2. k \in Link
  <2>1. cache[l] \in View \cup {None}
    BY DEF Maps
  <2> QED
    BY <1>1, <2>1 DEF loadLinks, Link, Entry, View, Types
<1>3. k # None
  BY <1>2, NoneAssumption
<1>4. CASE cache[l] = None
  BY <1>1, <1>3, <1>4 DEF loadLinks, GoodLink
<1>5. CASE cache[l] # None
  BY <1>1, <1>3, <1>5 DEF loadLinks, GoodLink, GoodView, GoodEntry, Entry, Types
<1> QED
  BY <1>4, <1>5

(* A plan that is not refused has every given pair of such links. *)
LEMMA PlanGood ==
    ASSUME TypeOK, NEW ps \in SUBSET Pairs, NEW links \in Maps(Link),
           \A l \in steady : GoodLink(links[l]),
           ~linksUnresolved(ps, withHeldLinks(ps, links))
    PROVE  Covers(buildSiteIsolationNft(ps, withHeldLinks(ps, links)), ps)
<1> DEFINE held == withHeldLinks(ps, links)
           plan == planSiteIsolation(ps, held)
<1>1. plan \subseteq ps
  BY DEF planSiteIsolation
<1>2. ASSUME NEW p \in ps, p \subseteq steady, p \notin plan
      PROVE  FALSE
  <2>1. \A l \in p : l \in Links /\ held[l] = links[l] /\ GoodLink(links[l])
    BY <1>2 DEF withHeldLinks, GoodLink, Pairs
  <2>2. \A l \in p : held[l] # None /\ held[l].live # FALSE
    BY <1>1, <1>2, <2>1 DEF linksUnresolved, GoodLink
  <2>3. \A l \in p : isSiteLink(held[l]) /\ siteNetworks(held[l]) # {}
    BY <2>1, <2>2 DEF GoodLink, isSiteLink, siteNetworks
  <2> QED
    BY <1>2, <2>3 DEF planSiteIsolation
<1>3. buildSiteIsolationNft(ps, held).pairs = plan
  BY DEF buildSiteIsolationNft
<1> QED
  BY <1>1, <1>2, <1>3 DEF Covers

-----------------------------------------------------------------------------
(* Every step keeps the invariant *)

(* The synchronous part of an apply either refuses and ends, or goes on with *)
(* a script that covers the pairs it was given.                              *)
LEMMA PlanResult ==
    ASSUME TypeOK, NEW op, NEW ps \in SUBSET Pairs, NEW links \in Maps(Link),
           \A l \in steady : GoodLink(links[l]), Plan(op, ps, links)
    PROVE  \/ /\ run' = NoRun /\ err' = "links-unresolved"
              /\ rep' = IF op = "replace" THEN NoRep ELSE rep
           \/ /\ run'.pc \in {"list", "nft"} /\ run'.op = op /\ run'.pairs = ps
              /\ run'.pc = "list" => op = "timer" /\ run'.script = script
              /\ Covers(run'.script, ps)
              /\ rep' = IF op = "replace" THEN [rep EXCEPT !.pc = "applying"] ELSE rep
              /\ err' = err
<1> DEFINE held == withHeldLinks(ps, links)
           new  == buildSiteIsolationNft(ps, held)
<1>1. CASE linksUnresolved(ps, held)
  BY <1>1 DEF Plan
<1>2. CASE ~linksUnresolved(ps, held)
  <2>1. Covers(new, ps)
    BY <1>2, PlanGood
  <2>2. \E pc \in {"list", "nft"} :
           /\ run' = [pc |-> pc, op |-> op, pairs |-> ps, meta |-> NoLinks,
                      links |-> held, script |-> new]
           /\ pc = "list" => op = "timer" /\ new = script
    BY <1>2 DEF Plan
  <2>3. /\ rep' = IF op = "replace" THEN [rep EXCEPT !.pc = "applying"] ELSE rep
        /\ err' = err
    BY <1>2 DEF Plan
  <2> HIDE DEF new, held
  <2> QED
    BY <2>1, <2>2, <2>3
<1> QED
  BY <1>1, <1>2

(* Ended applies and saves are idle. *)
LEMMA NoRunFacts ==
    NoRun.pc = "idle" /\ NoRun.op = "timer" /\ NoRep.pc = "idle"
BY DEF NoRun, NoRep

(* Views: what is remembered of steady links stays right. *)
LEMMA ViewStep ==
    ASSUME Inv, [Next]_vars
    PROVE  ViewInv'
<1> USE DEF store, applier
<1>0. TypeOK /\ ViewInv /\ steady \subseteq Links
  BY DEF Inv, TypeOK
<1>a. \A l \in steady : GoodView(getStatus[l]) /\ GoodView(CacheLive(liveCache, getStatus)[l])
  BY <1>0, StatusGood, CacheGood DEF ViewInv
<1>b. \A l \in steady : GoodEntry(meta[l])
  BY <1>0, EntryGood
<1>c. getStatus \in Maps(View) /\ CacheLive(liveCache, getStatus) \in Maps(View)
  BY <1>0, StatusType, CacheType DEF TypeOK
<1>1. CASE StartApply
  <2>1. /\ UNCHANGED <<steady, meta, peer, liveCache, obs>>
        /\ run'.pc # "status"
        /\ rep' = rep \/ rep'.pc \in {"idle", "applying"}
    <3>1. CASE Head(queue) = "replace"
      <4>1. Plan("replace", rep.body, rep.links)
        BY <1>1, <3>1 DEF StartApply
      <4>2. \/ run' = NoRun /\ rep' = NoRep
            \/ run'.pc \in {"list", "nft"} /\ rep' = [rep EXCEPT !.pc = "applying"]
        BY <4>1 DEF Plan
      <4> QED
        BY <1>0, <1>1, <4>2, NoRunFacts DEF StartApply, TypeOK, RepType
    <3>2. CASE Head(queue) # "replace"
      BY <1>1, <3>2 DEF StartApply, NoRun
    <3> QED
      BY <3>1, <3>2
  <2> QED
    BY <1>0, <2>1 DEF ViewInv
<1>2. CASE ApplyReadMeta
  <2>1. /\ UNCHANGED <<steady, meta, peer, liveCache, obs>>
        /\ run'.pc = "status" => run'.meta = meta
        /\ rep' = rep \/ rep'.pc = "idle"
    BY <1>0, <1>2, NoRunFacts DEF ApplyReadMeta, Done, TypeOK, RunType
  <2> QED
    BY <1>0, <1>b, <2>1 DEF ViewInv
<1>3. CASE ApplyPlan
  <2>1. /\ UNCHANGED <<steady, meta, peer, obs>>
        /\ liveCache' = CacheLive(liveCache, getStatus)
    BY <1>3 DEF ApplyPlan
  <2>2. run'.pc # "status" /\ (rep' = rep \/ rep'.pc \in {"idle", "applying"})
    <3>1. PICK links : Plan(run.op, run.pairs, links)
      BY <1>3 DEF ApplyPlan
    <3>2. \/ run' = NoRun /\ (rep' = rep \/ rep' = NoRep)
          \/ run'.pc \in {"list", "nft"} /\ (rep' = rep \/ rep' = [rep EXCEPT !.pc = "applying"])
      BY <3>1 DEF Plan
    <3> QED
      BY <1>0, <3>2, NoRunFacts DEF TypeOK, RepType
  <2> QED
    BY <1>0, <1>a, <2>1, <2>2 DEF ViewInv
<1>4. CASE ApplyList \/ ApplyNft \/ ApplyNftFails \/ ApplyPersist \/ ApplyPersistFails
  <2>1. /\ UNCHANGED <<steady, meta, peer, liveCache, obs>>
        /\ run'.pc # "status"
        /\ rep' = rep \/ rep'.pc = "idle"
    BY <1>0, <1>4, NoRunFacts DEF ApplyList, ApplyNft, ApplyNftFails, ApplyPersist,
       ApplyPersistFails, Done, TypeOK, RunType
  <2> QED
    BY <1>0, <2>1 DEF ViewInv
<1>5. CASE Trigger \/ TimerFires \/ FlushRuleset \/ RestartNftables
  BY <1>0, <1>5 DEF Trigger, TimerFires, FlushRuleset, RestartNftables, ViewInv
<1>6. ASSUME NEW body \in Bodies, ReplaceStart(body)
      PROVE  ViewInv'
  <2>1. /\ UNCHANGED <<steady, meta, peer, liveCache, obs, run>>
        /\ rep'.pc = "status" /\ rep'.meta = meta
    BY <1>6 DEF ReplaceStart, NoRep
  <2> QED
    BY <1>0, <1>b, <2>1 DEF ViewInv
<1>7. CASE ReplaceLinks
  <2> DEFINE links == loadLinks(rep.meta, getStatus, CacheLive(liveCache, getStatus))
  <2>1. /\ UNCHANGED <<steady, meta, peer, obs, run>>
        /\ liveCache' = CacheLive(liveCache, getStatus)
        /\ \/ rep' = [rep EXCEPT !.pc = "commit", !.meta = NoLinks, !.links = links]
           \/ rep' = NoRep
    BY <1>7 DEF ReplaceLinks
  <2>2. \A l \in steady : GoodLink(links[l])
    BY <1>0, <1>7, <1>a, <1>c, LoadGood DEF ReplaceLinks, ViewInv, TypeOK, RepType
  <2> HIDE DEF links
  <2>3. \/ rep'.pc = "commit" /\ rep'.links = links
        \/ rep'.pc = "idle"
    BY <1>0, <2>1, NoRunFacts DEF TypeOK, RepType
  <2> QED
    BY <1>0, <1>a, <2>1, <2>2, <2>3 DEF ViewInv
<1>8. CASE ReplaceCommit \/ ReplaceApply
  <2>1. /\ UNCHANGED <<steady, meta, peer, liveCache, obs, run>>
        /\ rep.pc \in {"commit", "stored"} /\ rep'.pc \in {"stored", "queued"}
        /\ rep'.links = rep.links
    BY <1>0, <1>8 DEF ReplaceCommit, ReplaceApply, TypeOK, RepType
  <2> QED
    BY <1>0, <2>1 DEF ViewInv
<1>9. CASE OverviewReadStatus
  BY <1>0, <1>9, <1>a DEF OverviewReadStatus, ViewInv
<1>10. CASE OverviewFillCache
  <2>1. \A l \in steady : GoodView(CacheLive(liveCache, obs)[l])
    BY <1>0, <1>10, CacheGood DEF OverviewFillCache, ViewInv
  <2> QED
    BY <1>0, <1>10, <2>1 DEF OverviewFillCache, ViewInv
<1>11. CASE Change
  <2>1. /\ UNCHANGED <<liveCache, obs, run, rep>> /\ steady' \subseteq steady
        /\ \A l \in steady' : RecordedSite(l, meta'[l], peer'[l])
    BY <1>11 DEF Change
  <2> QED
    BY <1>0, <2>1 DEF ViewInv, RecordedSite
<1>12. CASE RestartBackend
  <2>1. /\ UNCHANGED <<steady, meta, peer>>
        /\ obs' = None /\ liveCache' = NoLinks /\ run'.pc = "idle" /\ rep'.pc = "idle"
    BY <1>12, NoRunFacts DEF RestartBackend
  <2> QED
    BY <1>0, <2>1 DEF ViewInv, GoodView, NoLinks
<1>13. CASE UNCHANGED vars
  BY <1>0, <1>13 DEF vars, ViewInv
<1> QED
  BY <1>1, <1>2, <1>3, <1>4, <1>5, <1>6, <1>7, <1>8, <1>9, <1>10, <1>11, <1>12, <1>13
     DEF Next, ApplyStep, ReplaceStep, WriteMeta, SetPeer, SetOutage, SetReadable

(* Order: saves and applies keep working on the pairs they should. *)
RestInv == PlanInv /\ OrderInv /\ AppliedMatchesStored /\ BootCopyCurrent

(* An apply that begins its synchronous part. *)
LEMMA PlanStep ==
    ASSUME Inv, NEW op \in {"start", "timer", "replace"}, NEW links \in Maps(Link),
           NEW ps \in SUBSET Pairs,
           \A l \in steady : GoodLink(links[l]), Plan(op, ps, links),
           op = "replace" => rep.pc = "queued" /\ ps = pairs,
           op # "replace" => ps = pairs \/ (SaveInFlight /\ ps = rep.before),
           run.op # "replace",
           \A i \in 1 .. Len(queue') : queue'[i] = "replace" =>
               rep.pc = "queued" /\ op # "replace",
           \A i, j \in 1 .. Len(queue') :
               queue'[i] = "replace" /\ queue'[j] = "replace" => i = j,
           UNCHANGED <<pairs, store, script, persisted, boot>>,
           run.pc # "persist"
    PROVE  RestInv'
<1> USE DEF store
<1>0. TypeOK /\ OrderInv /\ AppliedMatchesStored /\ BootCopyCurrent
  BY DEF Inv
<1>1. rep.pc # "applying"
  BY <1>0 DEF OrderInv
<1>2. CASE /\ run' = NoRun /\ err' = "links-unresolved"
           /\ rep' = IF op = "replace" THEN NoRep ELSE rep
  <2>1. PlanInv' /\ AppliedMatchesStored' /\ BootCopyCurrent'
    BY <1>0, <1>2, NoRunFacts DEF PlanInv, AppliedMatchesStored, BootCopyCurrent
  <2>2. OrderInv'
    BY <1>0, <1>1, <1>2, NoRunFacts DEF OrderInv, SaveInFlight
  <2> QED
    BY <2>1, <2>2 DEF RestInv
<1>3. CASE /\ run'.pc \in {"list", "nft"} /\ run'.op = op /\ run'.pairs = ps
           /\ run'.pc = "list" => op = "timer" /\ run'.script = script
           /\ Covers(run'.script, ps)
           /\ rep' = IF op = "replace" THEN [rep EXCEPT !.pc = "applying"] ELSE rep
           /\ err' = err
  <2>1. PlanInv'
    BY <1>3 DEF PlanInv, Covers
  <2>2. BootCopyCurrent'
    BY <1>0, <1>3 DEF BootCopyCurrent
  <2>3. /\ op = "replace" => rep'.pc = "applying" /\ rep'.body = rep.body
        /\ op # "replace" => rep' = rep
    BY <1>0, <1>3 DEF TypeOK, RepType
  <2>4. AppliedMatchesStored'
    BY <1>0, <1>3, <2>3 DEF AppliedMatchesStored, SaveInFlight
  <2>5. OrderInv'
    BY <1>0, <1>1, <1>3, <2>3 DEF OrderInv, SaveInFlight
  <2> QED
    BY <2>1, <2>2, <2>4, <2>5 DEF RestInv
<1> QED
  BY <1>0, <1>2, <1>3, PlanResult

(* Every step keeps the order, the plan and the boot copy right. *)
LEMMA RestStep ==
    ASSUME Inv, [Next]_vars
    PROVE  RestInv'
<1> USE DEF store, applier
<1>0. TypeOK /\ ViewInv /\ steady \subseteq Links /\ PlanInv /\ OrderInv
      /\ AppliedMatchesStored /\ BootCopyCurrent
  BY DEF Inv, TypeOK
<1>1. CASE StartApply
  <2>1. queue \in Seq({"start", "timer", "replace"}) /\ queue # <<>> /\ queue' = Tail(queue)
    BY <1>0, <1>1 DEF StartApply, TypeOK
  <2>2. /\ Len(queue) >= 1 /\ Head(queue) = queue[1] /\ Len(queue') = Len(queue) - 1
        /\ \A i \in 1 .. Len(queue') : queue'[i] = queue[i + 1]
    BY <2>1
  <2>3. /\ \A i \in 1 .. Len(queue') :
              queue'[i] = "replace" => rep.pc = "queued" /\ Head(queue) # "replace"
        /\ \A i, j \in 1 .. Len(queue') :
              queue'[i] = "replace" /\ queue'[j] = "replace" => i = j
    BY <1>0, <2>1, <2>2 DEF OrderInv
  <2>4. run.op # "replace" /\ run.pc = "idle"
    BY <1>0, <1>1 DEF StartApply, OrderInv
  <2>5. CASE Head(queue) = "replace"
    <3>1. rep.pc = "queued"
      BY <1>0, <2>1, <2>2, <2>5 DEF OrderInv
    <3>2. rep.body = pairs
      BY <1>0, <3>1 DEF OrderInv, SaveInFlight
    <3>3. /\ rep.body \in SUBSET Pairs /\ rep.links \in Maps(Link)
          /\ \A l \in steady : GoodLink(rep.links[l])
      BY <1>0, <3>1 DEF TypeOK, RepType, ViewInv
    <3>4. /\ Plan("replace", rep.body, rep.links)
          /\ UNCHANGED <<pairs, store, script, persisted, boot>>
      BY <1>1, <2>5 DEF StartApply
    <3> QED
      BY <2>3, <2>4, <2>5, <3>1, <3>2, <3>3, <3>4, PlanStep
  <2>6. CASE Head(queue) # "replace"
    <3>1. /\ run'.pc = "meta" /\ run'.op = Head(queue) /\ run'.pairs = pairs
          /\ UNCHANGED <<err, missing, rep, pairs, store, script, persisted, boot>>
      BY <1>1, <2>6 DEF StartApply, NoRun
    <3>2. OrderInv'
      BY <1>0, <2>3, <2>4, <2>6, <3>1 DEF OrderInv, SaveInFlight
    <3>3. PlanInv' /\ AppliedMatchesStored' /\ BootCopyCurrent'
      BY <1>0, <2>4, <3>1 DEF PlanInv, AppliedMatchesStored, BootCopyCurrent, SaveInFlight
    <3> QED
      BY <3>2, <3>3 DEF RestInv
  <2> QED
    BY <2>5, <2>6
<1>2. CASE ApplyReadMeta
  <2>1. run.op # "replace"
    BY <1>0, <1>2 DEF ApplyReadMeta, OrderInv
  <2>2. /\ UNCHANGED <<rep, queue, pairs, store, script, persisted, boot>>
        /\ \/ /\ run'.pc = "status" /\ run'.op = run.op /\ run'.pairs = run.pairs
              /\ err' = err
           \/ run' = NoRun /\ err' = "input"
    BY <1>0, <1>2, <2>1 DEF ApplyReadMeta, Done, TypeOK, RunType
  <2>3. OrderInv'
    BY <1>0, <1>2, <2>1, <2>2, NoRunFacts DEF ApplyReadMeta, OrderInv, SaveInFlight
  <2>4. PlanInv' /\ AppliedMatchesStored' /\ BootCopyCurrent'
    BY <1>0, <1>2, <2>2, NoRunFacts
       DEF ApplyReadMeta, PlanInv, AppliedMatchesStored, BootCopyCurrent, SaveInFlight
  <2> QED
    BY <2>3, <2>4 DEF RestInv
<1>3. CASE ApplyPlan
  <2> DEFINE now == CacheLive(liveCache, getStatus)
             links == loadLinks(run.meta, getStatus, now)
  <2>1. run.pc = "status" /\ Plan(run.op, run.pairs, links)
        /\ UNCHANGED <<pairs, store, script, persisted, queue, boot>>
    BY <1>3 DEF ApplyPlan
  <2>2. getStatus \in Maps(View) /\ now \in Maps(View)
    BY <1>0, StatusType, CacheType DEF TypeOK
  <2>3. /\ run.meta \in Maps(Entry) /\ run.pairs \in SUBSET Pairs
        /\ run.op \in {"start", "timer", "replace"}
    BY <1>0 DEF TypeOK, RunType
  <2>4. links \in Maps(Link)
    BY <2>2, <2>3, LoadType
  <2>5. \A l \in steady : GoodView(now[l]) /\ GoodEntry(run.meta[l])
    BY <1>0, <2>1, StatusGood, CacheGood DEF ViewInv
  <2>6. \A l \in steady : GoodLink(links[l])
    BY <1>0, <2>2, <2>3, <2>5, LoadGood
  <2> HIDE DEF links, now
  <2>7. /\ run.op # "replace"
        /\ run.pairs = pairs \/ (SaveInFlight /\ run.pairs = rep.before)
        /\ \A i \in 1 .. Len(queue') : queue'[i] = "replace" => rep.pc = "queued"
        /\ \A i, j \in 1 .. Len(queue') :
              queue'[i] = "replace" /\ queue'[j] = "replace" => i = j
    BY <1>0, <2>1 DEF OrderInv
  <2> QED
    BY <2>1, <2>3, <2>4, <2>6, <2>7, PlanStep
<1>4. CASE ApplyList
  <2>1. /\ UNCHANGED <<queue, pairs, store, applier, boot>> /\ run.op # "replace"
        /\ rep' = rep
        /\ \/ run' = NoRun
           \/ /\ run'.pc \in {"nft", "persist"} /\ run'.op = run.op
              /\ run'.pairs = run.pairs /\ run'.script = run.script
    BY <1>0, <1>4 DEF ApplyList, Done, OrderInv, TypeOK, RunType
  <2>2. OrderInv'
    BY <1>0, <1>4, <2>1, NoRunFacts DEF ApplyList, OrderInv, SaveInFlight
  <2>3. PlanInv'
    BY <1>0, <1>4, <2>1, NoRunFacts DEF ApplyList, PlanInv, Covers
  <2>4. AppliedMatchesStored' /\ BootCopyCurrent'
    BY <1>0, <1>4, <2>1, NoRunFacts
       DEF ApplyList, AppliedMatchesStored, BootCopyCurrent, SaveInFlight
  <2> QED
    BY <2>2, <2>3, <2>4 DEF RestInv
<1>5. CASE ApplyNft
  <2>1. /\ UNCHANGED <<queue, pairs, store, boot, persisted, rep>>
        /\ script' = run.script /\ run.pc = "nft"
        /\ run'.pc = "persist" /\ run'.op = run.op
        /\ run'.pairs = run.pairs /\ run'.script = run.script
    BY <1>0, <1>5 DEF ApplyNft, TypeOK, RunType
  <2>2. OrderInv'
    BY <1>0, <2>1 DEF OrderInv, SaveInFlight
  <2>3. PlanInv' /\ BootCopyCurrent'
    BY <1>0, <2>1 DEF PlanInv, Covers, BootCopyCurrent
  <2>4. ~SaveInFlight => run.pairs = pairs
    BY <1>0, <2>1 DEF OrderInv
  <2>5. AppliedMatchesStored'
    BY <1>0, <2>1, <2>4 DEF AppliedMatchesStored, PlanInv, Covers, SaveInFlight
  <2> QED
    BY <2>2, <2>3, <2>5 DEF RestInv
<1>6. CASE ApplyNftFails
  <2>1. /\ UNCHANGED <<queue, pairs, store, boot, persisted, script>>
        /\ err' = "nft" /\ run.pc = "nft" /\ run' = NoRun
        /\ rep' = IF run.op = "replace" THEN NoRep ELSE rep
    BY <1>6 DEF ApplyNftFails, Done
  <2>2. OrderInv'
    BY <1>0, <2>1, NoRunFacts DEF OrderInv, SaveInFlight
  <2> QED
    BY <1>0, <2>1, <2>2, NoRunFacts
       DEF RestInv, PlanInv, AppliedMatchesStored, BootCopyCurrent
<1>7. CASE ApplyPersist \/ ApplyPersistFails
  <2>1. /\ UNCHANGED <<queue, pairs, store, script, err>>
        /\ run.pc = "persist" /\ run' = NoRun
        /\ rep' = IF run.op = "replace" THEN NoRep ELSE rep
        /\ persisted' => boot' = run.script
    BY <1>7 DEF ApplyPersist, ApplyPersistFails, Done
  <2>2. OrderInv'
    BY <1>0, <2>1, NoRunFacts DEF OrderInv, SaveInFlight
  <2>3. run.script = script
    BY <1>0, <2>1 DEF OrderInv
  <2>4. run.op = "replace" => run.pairs = pairs
    BY <1>0 DEF OrderInv
  <2>5. AppliedMatchesStored'
    BY <1>0, <2>1, <2>3, <2>4 DEF AppliedMatchesStored, PlanInv, Covers, SaveInFlight
  <2> QED
    BY <2>1, <2>2, <2>3, <2>5, NoRunFacts DEF RestInv, PlanInv, BootCopyCurrent
<1>8. CASE Trigger \/ FlushRuleset \/ RestartNftables \/ OverviewReadStatus \/ OverviewFillCache
  BY <1>0, <1>8 DEF Trigger, FlushRuleset, RestartNftables, OverviewReadStatus,
     OverviewFillCache, RestInv, PlanInv, OrderInv, AppliedMatchesStored, BootCopyCurrent,
     SaveInFlight, Covers
<1>9. CASE TimerFires \/ ReplaceApply
  <2>1. queue \in Seq({"start", "timer", "replace"})
    BY <1>0 DEF TypeOK
  <2>2. /\ UNCHANGED <<run, pairs, store, applier, boot>>
        /\ \/ /\ queue' = Append(queue, "timer") /\ rep' = rep
           \/ /\ queue' = Append(queue, "replace") /\ rep.pc = "stored"
              /\ rep'.pc = "queued" /\ rep'.body = rep.body /\ rep'.before = rep.before
    BY <1>0, <1>9 DEF TimerFires, ReplaceApply, TypeOK, RepType
  <2>3. \A x : /\ Len(Append(queue, x)) = Len(queue) + 1
               /\ \A i \in 1 .. Len(queue) : Append(queue, x)[i] = queue[i]
               /\ Append(queue, x)[Len(queue) + 1] = x
    BY <2>1
  <2>4. OrderInv'
    <3>1. CASE queue' = Append(queue, "timer") /\ rep' = rep
      BY <1>0, <2>1, <2>2, <2>3, <3>1 DEF OrderInv, SaveInFlight
    <3>2. CASE /\ queue' = Append(queue, "replace") /\ rep.pc = "stored"
               /\ rep'.pc = "queued" /\ rep'.body = rep.body /\ rep'.before = rep.before
      <4>1. \A i \in 1 .. Len(queue) : queue[i] # "replace"
        BY <1>0, <3>2 DEF OrderInv
      <4> QED
        BY <1>0, <2>1, <2>2, <2>3, <3>2, <4>1 DEF OrderInv, SaveInFlight
    <3> QED
      BY <2>2, <3>1, <3>2
  <2>5. PlanInv' /\ AppliedMatchesStored' /\ BootCopyCurrent'
    BY <1>0, <2>2 DEF PlanInv, AppliedMatchesStored, BootCopyCurrent, SaveInFlight, Covers
  <2> QED
    BY <2>4, <2>5 DEF RestInv
<1>10. ASSUME (\E body \in Bodies : ReplaceStart(body)) \/ ReplaceLinks
       PROVE  RestInv'
  <2>1. /\ UNCHANGED <<run, queue, pairs, store, applier, boot>>
        /\ rep.pc \in {"idle", "status"} /\ rep'.pc \in {"idle", "status", "commit"}
    BY <1>0, <1>10, NoRunFacts DEF ReplaceStart, ReplaceLinks, NoRep, TypeOK, RepType
  <2>2. OrderInv'
    BY <1>0, <2>1 DEF OrderInv, SaveInFlight
  <2> QED
    BY <1>0, <2>1, <2>2
       DEF RestInv, PlanInv, AppliedMatchesStored, BootCopyCurrent, SaveInFlight, Covers
<1>11. CASE ReplaceCommit
  <2>1. /\ UNCHANGED <<run, queue, store, applier, boot>> /\ rep.pc = "commit"
        /\ pairs' = rep.body /\ rep'.pc = "stored" /\ rep'.before = pairs
        /\ rep'.body = rep.body
    BY <1>0, <1>11 DEF ReplaceCommit, TypeOK, RepType
  <2>2. OrderInv'
    BY <1>0, <2>1 DEF OrderInv, SaveInFlight
  <2> QED
    BY <1>0, <2>1, <2>2
       DEF RestInv, PlanInv, AppliedMatchesStored, BootCopyCurrent, SaveInFlight, Covers
<1>12. CASE Change
  <2>1. UNCHANGED <<run, queue, pairs, rep, applier, boot>> /\ steady' \subseteq steady
    BY <1>12 DEF Change
  <2>2. OrderInv'
    BY <1>0, <2>1 DEF OrderInv, SaveInFlight
  <2> QED
    BY <1>0, <2>1, <2>2
       DEF RestInv, PlanInv, AppliedMatchesStored, BootCopyCurrent, SaveInFlight, Covers
<1>13. CASE RestartBackend
  <2>1. /\ queue' = <<"start">> /\ run' = NoRun /\ rep' = NoRep
        /\ script' = None /\ ~persisted'
    BY <1>13 DEF RestartBackend
  <2>2. OrderInv'
    BY <2>1, NoRunFacts DEF OrderInv, SaveInFlight
  <2> QED
    BY <2>1, <2>2, NoRunFacts DEF RestInv, PlanInv, AppliedMatchesStored, BootCopyCurrent
<1>14. CASE UNCHANGED vars
  BY <1>0, <1>14 DEF vars, RestInv, PlanInv, OrderInv, AppliedMatchesStored,
     BootCopyCurrent, SaveInFlight, Covers
<1> QED
  BY <1>1, <1>2, <1>3, <1>4, <1>5, <1>6, <1>7, <1>8, <1>9, <1>10, <1>11, <1>12, <1>13,
     <1>14
     DEF Next, ApplyStep, ReplaceStep, WriteMeta, SetPeer, SetOutage, SetReadable

(* The invariant holds initially. *)
LEMMA InvInit == Init => Inv
<1> SUFFICES ASSUME Init PROVE Inv
  OBVIOUS
<1>1. TypeOK
  BY TypeInit
<1>2. ViewInv
  BY NoRunFacts DEF Init, ViewInv, GoodView, NoLinks
<1>3. OrderInv
  BY NoRunFacts DEF Init, OrderInv, SaveInFlight
<1>4. PlanInv /\ AppliedMatchesStored /\ BootCopyCurrent
  BY NoRunFacts DEF Init, PlanInv, AppliedMatchesStored, BootCopyCurrent
<1> QED
  BY <1>1, <1>2, <1>3, <1>4 DEF Inv

(* The invariant holds in every reachable state. *)
LEMMA InvInvariant == Spec => []Inv
<1>1. Inv /\ [Next]_vars => Inv'
  BY TypeStep, ViewStep, RestStep DEF Inv, RestInv
<1> QED
  BY InvInit, <1>1, PTL DEF Spec

-----------------------------------------------------------------------------
(* The results *)

(* Outside a save, an applier without an error has loaded the stored pairs:   *)
(* no removed pair is left in the script of createSiteIsolationApplier and no *)
(* pair of links that have always been recorded as sites is missing from it.  *)
THEOREM AppliedMatches == Spec => []AppliedMatchesStored
<1>1. Inv => AppliedMatchesStored
  BY DEF Inv
<1> QED
  BY InvInvariant, <1>1, PTL

(* state.persisted is only set while the boot copy is the last loaded script. *)
THEOREM BootCopy == Spec => []BootCopyCurrent
<1>1. Inv => BootCopyCurrent
  BY DEF Inv
<1> QED
  BY InvInvariant, <1>1, PTL

(* No step of applyOnce takes a stored pair of links that have always been    *)
(* recorded as sites out of the kernel's table, whatever is unreadable,       *)
(* restarted or concurrently saved.                                           *)
THEOREM Separation == Spec => SeparationKept
<1> DEFINE Kept == run' # run /\ table # None =>
                     /\ table' # None
                     /\ \A p \in KeptPairs :
                           p \subseteq steady /\ p \in table.pairs => p \in table'.pairs
<1>1. ASSUME Inv, [Next]_vars
      PROVE  Kept
  <2> SUFFICES ASSUME run' # run, table # None
               PROVE  /\ table' # None
                      /\ \A p \in KeptPairs :
                            p \subseteq steady /\ p \in table.pairs => p \in table'.pairs
    OBVIOUS
  <2>0. TypeOK /\ PlanInv /\ OrderInv
    BY <1>1 DEF Inv
  <2>1. CASE ApplyNft \/ ApplyNftFails
    <3>1. run.pc = "nft" /\ table' \in {table, run.script}
      BY <2>1 DEF ApplyNft, ApplyNftFails
    <3>2. run.script # None
      BY <2>0, NoneAssumption DEF TypeOK, RunType
    <3>3. KeptPairs \subseteq run.pairs
      BY <2>0, <3>1 DEF OrderInv, KeptPairs
    <3> QED
      BY <2>0, <3>1, <3>2, <3>3 DEF PlanInv, Covers
  <2>2. CASE table' = table
    BY <2>2
  <2>3. CASE \/ StartApply \/ ApplyReadMeta \/ ApplyPlan \/ ApplyList \/ ApplyPersist
             \/ ApplyPersistFails \/ RestartBackend
    BY <2>2, <2>3 DEF StartApply, ApplyReadMeta, ApplyPlan, ApplyList, ApplyPersist,
       ApplyPersistFails, RestartBackend
  <2>4. run' = run \/ ApplyStep \/ ApplyNftFails \/ ApplyPersistFails \/ RestartBackend
    BY <1>1 DEF Next, ApplyStep, ReplaceStep, Trigger, TimerFires, ReplaceStart,
       ReplaceLinks, ReplaceCommit, ReplaceApply, OverviewReadStatus, OverviewFillCache,
       WriteMeta, SetPeer, SetOutage, SetReadable, Change, FlushRuleset, RestartNftables,
       vars
  <2> QED
    BY <2>1, <2>3, <2>4 DEF ApplyStep
<1>2. Inv /\ [Next]_vars => [Kept]_vars
  BY <1>1
<1> QED
  BY InvInvariant, <1>2, PTL DEF Spec, SeparationKept

=============================================================================
