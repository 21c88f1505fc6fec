--------------------------- MODULE HostConfigProofs ---------------------------
(***************************************************************************)
(* Proofs about HostConfig, for any set of hosts, settings, requests that  *)
(* overlap, and restarts.                                                  *)
(*                                                                         *)
(* Whatever nginx would load while nobody holds the configuration lock     *)
(* passes nginx -t.  Under the lock this is not so; what holds there is    *)
(* that putting the backups back would make it so.  The stash of a         *)
(* certificate request matters too: a refused save of a stashed host puts  *)
(* the stashed conf back into a live set that may have changed since.      *)
(*                                                                         *)
(* And no conf that works is lost: the second invariant follows where the  *)
(* one good conf of a host is, live, stashed or in the backup, through     *)
(* the steps of the one request that works on the host.                    *)
(*                                                                         *)
(* And the rows tell what nginx serves.  The third invariant says what is  *)
(* known of nginx -t between a test and the reload that follows it, and    *)
(* that confs are stashed for a certificate request only.  The fourth      *)
(* follows, phase by phase of the request that works on a host, how its    *)
(* conf, its row and what nginx runs drift apart and come together again.  *)
(***************************************************************************)
EXTENDS HostConfig, TLAPS

\* Steps of configure and of bulkGenerateConfigs under the lock.
Locked == {"backup", "clear", "generate", "verify", "activate",
           "bulk_generate", "bulk_test", "bulk_each", "bulk_end"}
CertPcs == {"cert_find", "cert_stash", "cert_request", "cert_done"}
LocFields == {"kind", "host", "set", "acl", "cert", "issued", "rules", "old", "snap", "had", "left", "bad"}

\* nginx -t accepts the confs c of all hosts outside x, whose types are t.
Good(c, x, t) ==
    /\ \A h \in Hosts \ x : Accepted(c[h])
    /\ \A g, h \in Hosts \ x :
          /\ g # h /\ t[g] = "stream" /\ t[h] = "stream" /\ Serving(c[g]) /\ Serving(c[h])
          => Name[c[g].set] # Name[c[h].set]

\* The live set c after the backups b of the hosts B are put back.
PutBack(c, b, had, B) ==
    [h \in Hosts |-> IF h \notin B THEN c[h] ELSE IF h \in had THEN b[h] ELSE None]

\* Files and requests are kept per host and process.
ShapeOK ==
    /\ DOMAIN conf = Hosts /\ DOMAIN bak = Hosts /\ DOMAIN stash = Hosts
    /\ DOMAIN pc = Procs /\ DOMAIN loc = Procs
    /\ \A p \in Procs : DOMAIN loc[p] = LocFields

\* One request at a time is between its first nginx -t and its reload.
LockOK ==
    /\ lock \in Procs \cup {None}
    /\ \A p \in Procs : pc[p] \in Locked <=> lock = p

\* What a request has read: the host it configures, and no stream where a
\* certificate is requested.
ReadOK(l, r, t) ==
    /\ l \in {"configure", "backup", "clear", "generate", "verify"} => DOMAIN r.snap = {r.host}
    /\ l = "patch" /\ r.kind = "enable" => DOMAIN r.snap = {r.host}
    /\ l = "cert_stash" => \A h \in DOMAIN r.snap : t[h] # "stream"
    /\ r.kind = "enable" => ~r.cert
    /\ l \in CertPcs => r.cert

\* What holds of the live set while a request is at l.
Under(l, r) ==
    /\ l \in {"backup", "activate", "bulk_each", "bulk_end"} => Good(conf, cut, type)
    /\ l \in {"clear", "generate", "verify"} =>
          Good(PutBack(conf, bak, r.had, {r.host}), cut, type)
    /\ l \in {"bulk_generate", "bulk_test"} =>
          Good(PutBack(conf, bak, r.had, DOMAIN r.snap), cut, type)
    /\ l = "bulk_each" =>
          \A h \in r.left \cap Hosts : conf[h] = IF h \in r.had THEN bak[h] ELSE None

LiveOK == Free => Good(conf, cut, type)
StashOK ==
    \A h \in Hosts : stash[h] # None => type[h] # "stream" /\ (h \in cut \/ Accepted(stash[h]))

IInv ==
    /\ ShapeOK /\ LockOK /\ LiveOK /\ StashOK
    /\ \A p \in Procs : ReadOK(pc[p], loc[p], type)
    /\ \A p \in Procs : Under(pc[p], loc[p])

-----------------------------------------------------------------------------
(* nginx -t *)

\* What nginx -t accepts is good, whichever hosts are left out.
LEMMA Tested == ASSUME NEW c, NEW s, NEW x, test(c, s) PROVE Good(c, x, type)
BY DEF test, Good

\* A good live set stays good when confs are taken out, when the confs of more hosts
\* are left out, and when accepted confs of hosts that are no streams are put in.
LEMMA GoodKept ==
    ASSUME NEW c, NEW d, NEW x, NEW y, NEW t, Good(c, x, t), x \subseteq y,
           \A h \in Hosts \ y : \/ d[h] = c[h]
                                \/ ~Serving(d[h])
                                \/ Accepted(d[h]) /\ t[h] # "stream"
    PROVE  Good(d, y, t)
<1>1. ASSUME NEW h \in Hosts \ y PROVE Accepted(d[h])
  BY <1>1 DEF Good, Accepted
<1>2. ASSUME NEW g \in Hosts \ y, NEW h \in Hosts \ y, g # h,
             t[g] = "stream", t[h] = "stream", Serving(d[g]), Serving(d[h])
      PROVE  Name[d[g].set] # Name[d[h].set]
  <2>1. d[g] = c[g] /\ d[h] = c[h]
    BY <1>2
  <2> QED
    BY <1>2, <2>1 DEF Good
<1> QED
  BY <1>1, <1>2 DEF Good

\* No conf, no server.
LEMMA Nothing == ~Serving(None) /\ Accepted(None)
BY DEF Serving, Accepted

-----------------------------------------------------------------------------
(* Steps *)

\* The step of p changes p's request only, and gives it what ReadOK says.
Alone(p) ==
    /\ DOMAIN pc' = Procs /\ DOMAIN loc' = Procs /\ DOMAIN loc'[p] = LocFields
    /\ \A q \in Procs \ {p} : pc'[q] = pc[q] /\ loc'[q] = loc[q]
    /\ type' = type /\ ReadOK(pc'[p], loc'[p], type)
\* Outside the lock, p's step leaves the files alone.
Outside(p) ==
    /\ pc[p] \notin Locked /\ pc'[p] \notin Locked
    /\ UNCHANGED <<files, lock, cut>>

\* Such a step keeps the invariant.
LEMMA OutsideKept ==
    ASSUME IInv, NEW p \in Procs, Alone(p), Outside(p)
    PROVE  IInv'
<1> USE DEF IInv, Alone, Outside, files
<1>1. ShapeOK'
  BY DEF ShapeOK
<1>2. LockOK'
  BY HostAssumption DEF LockOK, HostAssumption
<1>3. LiveOK' /\ StashOK'
  BY DEF LiveOK, StashOK, Free
<1>4. ASSUME NEW q \in Procs PROVE ReadOK(pc[q], loc[q], type)'
  BY <1>4
<1>5. ASSUME NEW q \in Procs PROVE Under(pc[q], loc[q])'
  <2>1. CASE q = p
    BY <2>1 DEF Under, Locked
  <2>2. CASE q # p
    <3>1. pc'[q] = pc[q] /\ loc'[q] = loc[q] /\ conf' = conf /\ bak' = bak /\ cut' = cut /\ type' = type
      BY <2>2
    <3>2. Under(pc[q], loc[q])
      OBVIOUS
    <3> QED
      BY <3>1, <3>2, Zenon DEF Under
  <2> QED
    BY <2>1, <2>2
<1> QED
  BY <1>1, <1>2, <1>3, <1>4, <1>5

\* Inside the lock, or where it is free, only p's step touches the files.
LEMMA InsideKept ==
    ASSUME IInv, NEW p \in Procs, Alone(p), lock \in {p, None}, cut' = cut,
           DOMAIN conf' = Hosts, DOMAIN bak' = Hosts, DOMAIN stash' = Hosts,
           StashOK', Under(pc[p], loc[p])',
           \/ pc'[p] \in Locked /\ lock' = p
           \/ pc'[p] \notin Locked /\ lock' = None /\ Good(conf', cut, type)
    PROVE  IInv'
<1> USE DEF IInv, Alone
<1>0. None \notin Procs
  BY HostAssumption DEF HostAssumption
<1>1. ShapeOK'
  BY DEF ShapeOK
<1>2. LockOK'
  BY <1>0 DEF LockOK
<1>3. LiveOK'
  BY <1>0 DEF LiveOK, Free
<1>4. ASSUME NEW q \in Procs PROVE ReadOK(pc[q], loc[q], type)'
  BY <1>4
<1>5. ASSUME NEW q \in Procs PROVE Under(pc[q], loc[q])'
  <2>1. CASE q = p
    BY <2>1
  <2>2. CASE q # p
    <3>1. pc'[q] \notin Locked
      BY <1>0, <2>2 DEF LockOK
    <3> QED
      BY <3>1 DEF Under, Locked
  <2> QED
    BY <2>1, <2>2
<1> QED
  BY <1>1, <1>2, <1>3, <1>4, <1>5

\* A request that goes on keeps what it has read; one that ends is idle.
LEMMA Goes ==
    ASSUME ShapeOK, NEW p \in Procs, NEW l, Goto(p, l), loc' = loc
    PROVE  /\ DOMAIN pc' = Procs /\ DOMAIN loc' = Procs /\ DOMAIN loc'[p] = LocFields
           /\ \A q \in Procs \ {p} : pc'[q] = pc[q] /\ loc'[q] = loc[q]
           /\ pc'[p] = l /\ loc'[p] = loc[p]
BY DEF ShapeOK, Goto

\* A request that ends forgets what it has read.
LEMMA Ends ==
    ASSUME ShapeOK, NEW p \in Procs, Done(p), type' = type
    PROVE  Alone(p) /\ pc'[p] = "idle"
<1>1. DOMAIN Idle = LocFields /\ Idle.cert = FALSE /\ Idle.kind = None
  BY DEF Idle, Fresh, LocFields
<1> QED
  BY <1>1 DEF ShapeOK, Done, Goto, Alone, ReadOK, CertPcs

-----------------------------------------------------------------------------
(* Requests, the database and reloads: outside the lock *)

\* A request begins with what it was sent.
LEMMA Received == ASSUME IInv, NEW p \in Procs, Receive(p) PROVE IInv'
<1>1. ASSUME NEW k, NEW h, NEW s, NEW a, NEW c
      PROVE  /\ DOMAIN Fresh(k, h, s, a, c) = LocFields
             /\ Fresh(k, h, s, a, c).kind = k /\ Fresh(k, h, s, a, c).cert = c
  BY DEF Fresh, LocFields
<1>2. ASSUME NEW r, NEW l \in {"get", "patch", "list_clear", "list_get", "site_delete"}, Request(p, r, l),
             DOMAIN r = LocFields, r.kind = "enable" => ~r.cert /\ l # "patch"
      PROVE  IInv'
  <2>1. /\ pc[p] = "idle" /\ pc' = [pc EXCEPT ![p] = l] /\ loc' = [loc EXCEPT ![p] = r]
        /\ UNCHANGED <<type, files, lock, cut>>
    BY <1>2 DEF Request, Goto, KeepFiles
  <2>2. Alone(p)
    BY <1>2, <2>1 DEF Alone, IInv, ShapeOK, ReadOK, CertPcs
  <2>3. Outside(p)
    BY <1>2, <2>1 DEF Outside, IInv, ShapeOK, Locked
  <2> QED
    BY <2>2, <2>3, OutsideKept
<1>3. CASE Create(p)
  <2>1. PICK h \in Hosts, b \in Bodies : Request(p, Fresh("create", h, b.set, b.acl, b.cert), "patch")
    BY <1>3 DEF Create
  <2> QED
    BY <1>1, <1>2, <2>1
<1>4. CASE Update(p)
  <2>1. PICK h \in Hosts, b \in Bodies : Request(p, Fresh("update", h, b.set, b.acl, b.cert), "get")
    BY <1>4 DEF Update
  <2> QED
    BY <1>1, <1>2, <2>1
<1>5. ASSUME NEW k, Change(p, k) PROVE IInv'
  <2>1. PICK h \in Hosts : Request(p, Fresh(k, h, None, FALSE, FALSE), "get")
    BY <1>5 DEF Change
  <2> DEFINE r == Fresh(k, h, None, FALSE, FALSE)
  <2>2. DOMAIN r = LocFields /\ ~r.cert
    BY DEF Fresh, LocFields
  <2>3. Request(p, r, "get")
    BY <2>1
  <2> HIDE DEF r
  <2> QED
    BY <1>2, <2>2, <2>3
<1>6. CASE ListUpdate(p)
  <2>1. PICK n : Request(p, [Fresh("list", None, None, FALSE, FALSE) EXCEPT !.rules = n], "list_clear")
    BY <1>6 DEF ListUpdate
  <2>2. /\ DOMAIN [Fresh("list", None, None, FALSE, FALSE) EXCEPT !.rules = n] = LocFields
        /\ [Fresh("list", None, None, FALSE, FALSE) EXCEPT !.rules = n].kind = "list"
    BY DEF Fresh, LocFields
  <2> QED
    BY <1>2, <2>1, <2>2
<1>7. CASE ListDelete(p)
  <2> DEFINE r == Fresh("unlist", None, None, FALSE, FALSE)
  <2>1. Request(p, r, "list_get")
    BY <1>7 DEF ListDelete
  <2>2. DOMAIN r = LocFields /\ r.kind = "unlist"
    BY DEF Fresh, LocFields
  <2> HIDE DEF r
  <2> QED
    BY <1>2, <2>1, <2>2
<1>8. CASE SettingUpdate(p)
  <2>1. PICK v : Request(p, Fresh("site", None, v, FALSE, FALSE), "site_delete")
    BY <1>8 DEF SettingUpdate
  <2> DEFINE r == Fresh("site", None, v, FALSE, FALSE)
  <2>2. DOMAIN r = LocFields /\ r.kind = "site"
    BY DEF Fresh, LocFields
  <2>3. Request(p, r, "site_delete")
    BY <2>1
  <2> HIDE DEF r
  <2> QED
    BY <1>2, <2>2, <2>3
<1> QED
  BY <1>3, <1>4, <1>5, <1>6, <1>7, <1>8 DEF Receive

\* A step that leaves the request as it is, outside the lock.
LEMMA GoesOutside ==
    ASSUME IInv, NEW p \in Procs, NEW l, Goto(p, l), loc' = loc, UNCHANGED <<type, files, lock, cut>>,
           pc[p] \notin Locked, l \notin Locked \cup {"configure", "patch", "cert_stash"},
           l \in CertPcs => loc[p].cert
    PROVE  IInv'
<1>1. ReadOK(pc[p], loc[p], type) /\ ShapeOK
  BY DEF IInv
<1>2. ReadOK(l, loc[p], type)
  BY <1>1 DEF ReadOK, Locked
<1>3. Alone(p) /\ pc'[p] = l
  BY <1>1, <1>2, Goes DEF Alone
<1> QED
  BY <1>3, OutsideKept DEF Outside

\* A request that ends outside the lock.
LEMMA EndsOutside ==
    ASSUME IInv, NEW p \in Procs, Done(p), UNCHANGED <<type, files, lock, cut>>, pc[p] \notin Locked
    PROVE  IInv'
BY Ends, OutsideKept DEF IInv, Outside, Locked

\* A request that has read something, outside the lock.
LEMMA ReadsOutside ==
    ASSUME IInv, NEW p \in Procs, NEW l, NEW r, pc' = [pc EXCEPT ![p] = l], loc' = [loc EXCEPT ![p] = r],
           DOMAIN r = LocFields, ReadOK(l, r, type), UNCHANGED <<type, files, lock, cut>>,
           pc[p] \notin Locked, l \notin Locked
    PROVE  IInv'
<1>1. Alone(p) /\ pc'[p] = l
  BY DEF IInv, Alone, ShapeOK
<1> QED
  BY <1>1, OutsideKept DEF Outside

\* The handlers of a host.
LEMMA Handled ==
    ASSUME IInv, NEW p \in Procs, Get(p) \/ Patch(p) \/ Fetch(p)
    PROVE  IInv'
<1> DEFINE l == loc[p]
           h == loc[p].host
<1>0. DOMAIN l = LocFields /\ ReadOK(pc[p], l, type)
  BY DEF IInv, ShapeOK
<1>1. CASE Get(p)
  <2>1. pc[p] = "get" /\ UNCHANGED <<type, files, lock, cut>>
    BY <1>1 DEF Get, Keep, KeepFiles, Told, history
  <2>2. CASE Done(p)
    BY <2>1, <2>2, EndsOutside DEF Locked
  <2>3. CASE ~Done(p)
    <3> DEFINE r == [l EXCEPT !.old = row[h], !.snap = [x \in {h} |-> Fetched(h)]]
    <3>1. loc' = [loc EXCEPT ![p] = r] /\ pc' = [pc EXCEPT ![p] = IF l.cert THEN "cert_find" ELSE "patch"]
      BY <1>1, <2>3 DEF Get, Goto
    <3>2. DOMAIN r = LocFields /\ DOMAIN r.snap = {r.host} /\ r.cert = l.cert /\ r.kind = l.kind
      BY <1>0 DEF LocFields
    <3>3. ReadOK(IF l.cert THEN "cert_find" ELSE "patch", r, type)
      BY <1>0, <3>2 DEF ReadOK, CertPcs
    <3> QED
      BY <2>1, <3>1, <3>2, <3>3, ReadsOutside DEF Locked
  <2> QED
    BY <2>2, <2>3
<1>2. CASE Patch(p)
  <2>1. pc[p] = "patch" /\ UNCHANGED <<type, files, lock, cut>>
    BY <1>2 DEF Patch, Keep, KeepFiles, Told, history
  <2>2. CASE l.kind = "enable"
    <3> DEFINE r == [loc[p] EXCEPT !.snap[loc[p].host].row.enabled = TRUE]
    <3>0. loc' = [loc EXCEPT ![p].snap[h].row.enabled = TRUE] /\ pc' = [pc EXCEPT ![p] = "configure"]
      BY <1>2, <2>2 DEF Patch, Goto
    <3>1. loc' = [loc EXCEPT ![p] = r] /\ pc' = [pc EXCEPT ![p] = "configure"]
      BY <3>0
    <3>2. DOMAIN r = LocFields /\ DOMAIN r.snap = {r.host} /\ r.cert = l.cert /\ r.kind = l.kind
      BY <1>0, <2>1, <2>2 DEF LocFields, ReadOK
    <3>3. ReadOK("configure", r, type)
      BY <1>0, <3>2 DEF ReadOK, CertPcs
    <3> QED
      BY <2>1, <3>1, <3>2, <3>3, ReadsOutside DEF Locked
  <2>3. CASE l.kind # "enable"
    <3>1. /\ loc' = loc
          /\ Goto(p, "fetch") \/ Goto(p, "delete") \/ (l.cert /\ Goto(p, "cert_find"))
      BY <1>2, <2>3 DEF Patch
    <3> QED
      BY <2>1, <3>1, GoesOutside DEF Locked, CertPcs
  <2> QED
    BY <2>2, <2>3
<1>3. CASE Fetch(p)
  <2>1. pc[p] = "fetch" /\ UNCHANGED <<type, files, lock, cut>>
    BY <1>3 DEF Fetch, Keep, KeepFiles, Told, history
  <2>2. CASE Done(p)
    BY <2>1, <2>2, EndsOutside DEF Locked
  <2>3. CASE ~Done(p)
    <3> DEFINE r == [l EXCEPT !.snap = [x \in {h} |-> Fetched(x)]]
    <3>1. loc' = [loc EXCEPT ![p] = r] /\ pc' = [pc EXCEPT ![p] = "configure"]
      BY <1>3, <2>3 DEF Fetch, Load, Set, Goto
    <3>2. DOMAIN r = LocFields /\ DOMAIN r.snap = {r.host} /\ r.cert = l.cert /\ r.kind = l.kind
      BY <1>0 DEF LocFields
    <3>3. ReadOK("configure", r, type)
      BY <1>0, <3>2 DEF ReadOK, CertPcs
    <3> QED
      BY <2>1, <3>1, <3>2, <3>3, ReadsOutside DEF Locked
  <2> QED
    BY <2>2, <2>3
<1> QED
  BY <1>1, <1>2, <1>3

\* The access list.
LEMMA Listed ==
    ASSUME IInv, NEW p \in Procs,
           \/ ListClear(p) \/ ListFill(p) \/ ListFetch(p) \/ ListBuild(p)
           \/ ListGet(p) \/ ListDrop(p) \/ ListDetach(p)
    PROVE  IInv'
<1> DEFINE l == loc[p]
<1>0. DOMAIN l = LocFields /\ ReadOK(pc[p], l, type)
  BY DEF IInv, ShapeOK
<1>1. /\ pc[p] \in {"list_clear", "list_fill", "list_fetch", "list_build",
                    "list_get", "list_drop", "list_detach"}
      /\ UNCHANGED <<type, files, lock, cut>>
  BY DEF ListClear, ListFill, ListFetch, ListBuild, ListGet, ListDrop, ListDetach,
         Keep, KeepFiles, Told, history
<1>2. CASE Done(p)
  BY <1>1, <1>2, EndsOutside DEF Locked
<1>3. CASE ~Done(p) /\ (ListFetch(p) \/ ListGet(p))
  <2>1. PICK f, n, s : /\ loc' = [loc EXCEPT ![p] = [l EXCEPT !.rules = n, !.snap = s]]
                       /\ pc' = [pc EXCEPT ![p] = f] /\ f \in {"list_build", "list_drop"}
    <3>1. CASE ListFetch(p)
      <4>1. /\ loc' = [loc EXCEPT ![p].rules = rules, ![p].snap = [h \in Users |-> Fetched(h)]]
            /\ pc' = [pc EXCEPT ![p] = "list_build"]
        BY <1>3, <3>1 DEF ListFetch, Goto
      <4> QED
        BY <4>1
    <3>2. CASE ListGet(p)
      <4>1. PICK s : loc' = [loc EXCEPT ![p].snap = s] /\ pc' = [pc EXCEPT ![p] = "list_drop"]
        BY <1>3, <3>2 DEF ListGet, Goto, Set
      <4>2. [l EXCEPT !.snap = s] = [l EXCEPT !.rules = l.rules, !.snap = s]
        BY <1>0 DEF LocFields
      <4> QED
        BY <4>1, <4>2
    <3> QED
      BY <1>3, <3>1, <3>2
  <2> DEFINE r == [l EXCEPT !.rules = n, !.snap = s]
  <2>2. DOMAIN r = LocFields /\ r.cert = l.cert /\ r.kind = l.kind
    BY <1>0 DEF LocFields
  <2>3. ReadOK(f, r, type)
    BY <1>0, <2>1, <2>2 DEF ReadOK, CertPcs
  <2> QED
    BY <1>1, <2>1, <2>2, <2>3, ReadsOutside DEF Locked
<1>4. CASE ListClear(p) \/ ListFill(p) \/ ListBuild(p) \/ ListDrop(p) \/ ListDetach(p)
  <2>1. PICK f \in {"list_fill", "list_fetch", "reload", "bulk", "list_detach"} : Goto(p, f) /\ loc' = loc
    BY <1>4 DEF ListClear, ListFill, ListBuild, ListDrop, ListDetach
  <2> QED
    BY <1>1, <2>1, GoesOutside DEF Locked, CertPcs
<1> QED
  BY <1>2, <1>3, <1>4

\* The certificate request outside its stash, the default site and the reloads.
LEMMA Requested ==
    ASSUME IInv, NEW p \in Procs,
           \/ reload(p) \/ getHostsWithDomains(p) \/ requestLetsEncryptSsl(p) \/ CertDone(p)
           \/ SiteDelete(p) \/ SiteGenerate(p) \/ SiteReload(p) \/ SiteUndo(p)
    PROVE  IInv'
<1> DEFINE l == loc[p]
<1>0. DOMAIN l = LocFields /\ ReadOK(pc[p], l, type)
  BY DEF IInv, ShapeOK
<1>1. CASE reload(p)
  <2>1. pc[p] = "reload" /\ Done(p) /\ UNCHANGED <<type, files, lock, cut>>
    BY <1>1 DEF reload, Keep, Told, Refuse, history
  <2> QED
    BY <2>1, EndsOutside DEF Locked
<1>2. CASE getHostsWithDomains(p)
  <2> DEFINE B == {h \in Hosts : Live(h) /\ type[h] # "stream" /\ Name[row[h].set] = Name[loc[p].set]}
             r == [l EXCEPT !.snap = [h \in B |-> Fetched(h)]]
  <2>1. /\ pc[p] = "cert_find" /\ UNCHANGED <<type, files, lock, cut>>
        /\ pc' = [pc EXCEPT ![p] = "cert_stash"] /\ loc' = [loc EXCEPT ![p] = r]
    BY <1>2 DEF getHostsWithDomains, Load, Set, Goto, Keep, KeepFiles, Told, history
  <2>2. DOMAIN r = LocFields /\ DOMAIN r.snap = B /\ r.cert = l.cert /\ r.kind = l.kind
    BY <1>0 DEF LocFields
  <2>3. \A h \in B : type[h] # "stream"
    OBVIOUS
  <2> HIDE DEF B, r
  <2>4. ReadOK("cert_stash", r, type)
    BY <1>0, <2>1, <2>2, <2>3 DEF ReadOK, CertPcs
  <2> QED
    BY <2>1, <2>2, <2>4, ReadsOutside DEF Locked
<1>3. CASE requestLetsEncryptSsl(p)
  <2>1. PICK ok \in BOOLEAN : Set(p, "issued", ok)
    BY <1>3, Zenon DEF requestLetsEncryptSsl
  <2>2. /\ pc[p] = "cert_request" /\ UNCHANGED <<type, files, lock, cut>>
        /\ pc' = [pc EXCEPT ![p] = IF Batch(p) = {} THEN "cert_done" ELSE "bulk"]
    BY <1>3 DEF requestLetsEncryptSsl, Goto, Keep, Told, history
  <2> DEFINE r == [l EXCEPT !.issued = ok]
             f == IF Batch(p) = {} THEN "cert_done" ELSE "bulk"
  <2>3. loc' = [loc EXCEPT ![p] = r]
    BY <2>1 DEF Set
  <2>4. DOMAIN r = LocFields /\ r.cert = l.cert /\ r.kind = l.kind
    BY <1>0 DEF LocFields
  <2>5. f \in {"cert_done", "bulk"} /\ pc' = [pc EXCEPT ![p] = f]
    BY <2>2
  <2> HIDE DEF r, f
  <2>6. ReadOK(f, r, type)
    BY <1>0, <2>2, <2>4, <2>5 DEF ReadOK, CertPcs
  <2> QED
    BY <2>2, <2>3, <2>4, <2>5, <2>6, ReadsOutside DEF Locked
<1>4. CASE CertDone(p)
  <2>1. pc[p] = "cert_done" /\ UNCHANGED <<type, files, lock, cut>>
    BY <1>4 DEF CertDone, Keep, Told, history
  <2>2. CASE Done(p)
    BY <2>1, <2>2, EndsOutside DEF Locked
  <2>3. CASE ~Done(p)
    <3>1. PICK f \in {"fetch", "patch"} : pc' = [pc EXCEPT ![p] = f] /\ loc' = loc
      BY <1>4, <2>3 DEF CertDone, Goto
    <3>2. l.kind # "enable"
      BY <1>0, <2>1 DEF ReadOK, CertPcs
    <3>3. ReadOK(f, l, type)
      BY <1>0, <3>2 DEF ReadOK, CertPcs
    <3>4. Alone(p) /\ pc'[p] = f
      BY <2>1, <3>1, <3>3 DEF IInv, ShapeOK, Alone
    <3> QED
      BY <2>1, <3>1, <3>4, OutsideKept DEF Outside, Locked
  <2> QED
    BY <2>2, <2>3
<1>5. CASE SiteDelete(p) \/ SiteGenerate(p) \/ SiteUndo(p)
  <2>1. PICK f \in {"site_generate", "site_reload", "reload"} :
           /\ pc[p] \in {"site_delete", "site_generate", "site_undo"} /\ Goto(p, f)
           /\ loc' = loc /\ UNCHANGED <<type, files, lock, cut>>
    BY <1>5 DEF SiteDelete, SiteGenerate, SiteUndo, SiteWrite, Keep, Told, history
  <2> QED
    BY <2>1, GoesOutside DEF Locked, CertPcs
<1>6. CASE SiteReload(p)
  <2>1. /\ pc[p] = "site_reload" /\ UNCHANGED <<type, files, lock, cut>>
        /\ Done(p) \/ (Goto(p, "site_undo") /\ loc' = loc)
    BY <1>6 DEF SiteReload, Keep, Told, history
  <2> QED
    BY <2>1, GoesOutside, EndsOutside DEF Locked, CertPcs
<1> QED
  BY <1>1, <1>2, <1>3, <1>4, <1>5, <1>6

-----------------------------------------------------------------------------
(* Confs are taken out where the lock is free *)

\* deleteConfig and bulkStashConfigs leave a good live set.
LEMMA TakenOut ==
    ASSUME IInv, NEW p \in Procs, deleteConfig(p) \/ bulkStashConfigs(p)
    PROVE  IInv'
<1>0. /\ DOMAIN conf = Hosts /\ DOMAIN bak = Hosts /\ DOMAIN stash = Hosts
      /\ ReadOK(pc[p], loc[p], type)
  BY DEF IInv, ShapeOK
<1>1. lock = None /\ Good(conf, cut, type)
  BY DEF IInv, LiveOK, deleteConfig, bulkStashConfigs, Free
<1>2. CASE deleteConfig(p)
  <2>1. /\ pc[p] = "delete" /\ conf' = [conf EXCEPT ![loc[p].host] = None]
        /\ Goto(p, "reload") /\ UNCHANGED <<bak, stash, lock, loc, type, cut>>
    BY <1>2 DEF deleteConfig, Keep, Told, history
  <2>2. Alone(p) /\ pc'[p] = "reload"
    <3>1. ReadOK("reload", loc[p], type)
      BY <1>0 DEF ReadOK, CertPcs
    <3> QED
      BY <2>1, <3>1, Goes DEF IInv, Alone
  <2>3. Good(conf', cut, type) /\ DOMAIN conf' = Hosts
    BY <1>0, <1>1, <2>1, GoodKept, Nothing
  <2>4. StashOK'
    BY <2>1 DEF IInv, StashOK
  <2>5. Under(pc[p], loc[p])'
    BY <2>2 DEF Under
  <2> QED
    BY <1>0, <1>1, <2>1, <2>2, <2>3, <2>4, <2>5, InsideKept DEF Locked
<1>3. CASE bulkStashConfigs(p)
  <2> DEFINE B == {h \in Batch(p) : conf[h] # None}
  <2>1. /\ pc[p] = "cert_stash"
        /\ stash' = [h \in Hosts |-> IF h \in B THEN conf[h] ELSE stash[h]]
        /\ conf' = [h \in Hosts |-> IF h \in B THEN None ELSE conf[h]]
        /\ Goto(p, "cert_request") /\ UNCHANGED <<bak, lock, loc, type, cut>>
    BY <1>3 DEF bulkStashConfigs, Keep, Told, history
  <2>2. \A h \in B : type[h] # "stream"
    BY <1>0, <2>1 DEF ReadOK, Batch
  <2> HIDE DEF B
  <2>3. Alone(p) /\ pc'[p] = "cert_request"
    <3>1. ReadOK("cert_request", loc[p], type)
      BY <1>0, <2>1 DEF ReadOK, CertPcs
    <3> QED
      BY <2>1, <3>1, Goes DEF IInv, Alone
  <2>4. Good(conf', cut, type)
    BY <1>1, <2>1, GoodKept, Nothing
  <2>5. StashOK'
    BY <1>1, <2>1, <2>2 DEF IInv, StashOK, Good
  <2>6. Under(pc[p], loc[p])'
    BY <2>3 DEF Under
  <2> QED
    BY <1>0, <1>1, <2>1, <2>3, <2>4, <2>5, <2>6, InsideKept DEF Locked
<1> QED
  BY <1>2, <1>3
-----------------------------------------------------------------------------
(* configure *)

\* A holder of the lock goes on: what is left to show of its step.
LEMMA HolderKept ==
    ASSUME IInv, NEW p \in Procs, NEW l \in Locked, NEW r, pc[p] \in Locked \/ (lock = None /\ lock' = p),
           pc[p] \in Locked => lock' = lock, UNCHANGED <<type, cut>>,
           pc' = [pc EXCEPT ![p] = l], (loc' = loc /\ r = loc[p]) \/ loc' = [loc EXCEPT ![p] = r],
           DOMAIN r = LocFields, ReadOK(l, r, type), Under(l, r)',
           DOMAIN conf' = Hosts, DOMAIN bak' = Hosts, DOMAIN stash' = Hosts, StashOK'
    PROVE  IInv'
<1>1. lock' = p /\ lock \in {p, None}
  BY DEF IInv, LockOK
<1>2. pc'[p] = l /\ loc'[p] = r
  BY DEF IInv, ShapeOK
<1>3. Alone(p)
  BY <1>2 DEF IInv, ShapeOK, Alone
<1>4. Under(pc[p], loc[p])'
  BY <1>2 DEF Under
<1> QED
  BY <1>1, <1>2, <1>3, <1>4, InsideKept

\* configure's steps, from the first nginx -t to the reload.
LEMMA Configured ==
    ASSUME IInv, NEW p \in Procs,
           \/ ConfigureTest(p) \/ ConfigureBackup(p) \/ ConfigureDelete(p)
           \/ ConfigureGenerate(p) \/ ConfigureVerify(p) \/ ConfigureReload(p)
    PROVE  IInv'
<1> DEFINE r == loc[p]
           h == loc[p].host
<1>0. /\ DOMAIN conf = Hosts /\ DOMAIN bak = Hosts /\ DOMAIN stash = Hosts
      /\ DOMAIN loc = Procs /\ DOMAIN pc = Procs /\ DOMAIN r = LocFields
      /\ ReadOK(pc[p], r, type) /\ Under(pc[p], r) /\ StashOK
  BY DEF IInv, ShapeOK
<1>1. CASE ConfigureTest(p)
  <2>1. pc[p] = "configure" /\ lock = None /\ UNCHANGED <<type, files, cut>>
    BY <1>1 DEF ConfigureTest, Keep, Told, Refuse, history, Free
  <2>2. CASE test(conf, site)
    <3>1. lock' = p /\ pc' = [pc EXCEPT ![p] = "backup"] /\ loc' = loc
      BY <1>1, <2>2 DEF ConfigureTest, Goto
    <3>2. ReadOK("backup", r, type)
      BY <1>0, <2>1 DEF ReadOK, CertPcs
    <3>3. Good(conf, cut, type)
      BY <2>2, Tested
    <3>4. Under("backup", r)'
      BY <2>1, <3>3 DEF Under, files
    <3>5. StashOK'
      BY <1>0, <2>1 DEF StashOK, files
    <3> QED
      BY <1>0, <2>1, <3>1, <3>2, <3>4, <3>5, HolderKept DEF Locked, files
  <2>3. CASE ~test(conf, site)
    <3>1. lock' = lock /\ Done(p)
      BY <1>1, <2>3 DEF ConfigureTest
    <3> QED
      BY <2>1, <3>1, EndsOutside DEF Locked
  <2> QED
    BY <2>2, <2>3
<1>2. CASE ConfigureBackup(p)
  <2>0. PICK s : s = [r EXCEPT !.had = Had({h})]
    OBVIOUS
  <2>1. /\ pc[p] = "backup" /\ backupConfig({h}) /\ loc' = [loc EXCEPT ![p] = s]
        /\ pc' = [pc EXCEPT ![p] = "clear"] /\ UNCHANGED <<type, conf, lock, cut>>
    BY <1>2, <2>0 DEF ConfigureBackup, Set, Goto, Keep, Told, history
  <2>2. DOMAIN s = LocFields /\ s.snap = r.snap /\ s.host = h /\ s.cert = r.cert /\ s.kind = r.kind
        /\ s.had = Had({h})
    BY <1>0, <2>0 DEF LocFields
  <2>3. ReadOK("clear", s, type)
    BY <1>0, <2>1, <2>2 DEF ReadOK, CertPcs
  <2>4. Good(conf, cut, type)
    BY <1>0, <2>1 DEF Under
  <2>5. \A g \in Hosts \ cut :
           LET d == PutBack(conf, bak', s.had, {h}) IN
           d[g] = conf[g] \/ ~Serving(d[g]) \/ (Accepted(d[g]) /\ type[g] # "stream")
    BY <1>0, <2>1, <2>2, Nothing DEF PutBack, backupConfig, Had, StashOK
  <2>6. Good(PutBack(conf, bak', s.had, {h}), cut, type)
    BY <2>4, <2>5, GoodKept
  <2>7. Under("clear", s)'
    BY <2>1, <2>2, <2>6 DEF Under
  <2>8. StashOK' /\ DOMAIN bak' = Hosts /\ DOMAIN stash' = Hosts
    BY <1>0, <2>1 DEF StashOK, backupConfig
  <2> QED
    BY <1>0, <2>1, <2>2, <2>3, <2>7, <2>8, HolderKept DEF Locked
<1>3. CASE ConfigureDelete(p)
  <2>1. /\ pc[p] = "clear" /\ conf' = [conf EXCEPT ![h] = None] /\ stash' = [stash EXCEPT ![h] = None]
        /\ pc' = [pc EXCEPT ![p] = "generate"] /\ UNCHANGED <<bak, type, lock, loc, cut>>
    BY <1>3 DEF ConfigureDelete, Goto, Keep, Told, history
  <2>2. ReadOK("generate", r, type)
    BY <1>0, <2>1 DEF ReadOK, CertPcs
  <2>3. PutBack(conf', bak, r.had, {h}) = PutBack(conf, bak, r.had, {h})
    BY <1>0, <2>1 DEF PutBack
  <2>4. Under("generate", r)'
    BY <1>0, <2>1, <2>3 DEF Under
  <2>5. StashOK' /\ DOMAIN conf' = Hosts /\ DOMAIN stash' = Hosts
    BY <1>0, <2>1 DEF StashOK
  <2> QED
    BY <1>0, <2>1, <2>2, <2>4, <2>5, HolderKept DEF Locked
<1>4. CASE ConfigureGenerate(p)
  <2>1. /\ pc[p] = "generate" /\ conf' = [conf EXCEPT ![h] = generateConfig(loc[p].snap[h])]
        /\ pc' = [pc EXCEPT ![p] = "verify"] /\ UNCHANGED <<bak, stash, type, lock, loc, cut>>
    BY <1>4 DEF ConfigureGenerate, Goto, Keep, Told, history
  <2>2. ReadOK("verify", r, type)
    BY <1>0, <2>1 DEF ReadOK, CertPcs
  <2>3. PutBack(conf', bak, r.had, {h}) = PutBack(conf, bak, r.had, {h})
    BY <1>0, <2>1 DEF PutBack
  <2>4. Under("verify", r)'
    BY <1>0, <2>1, <2>3 DEF Under
  <2>5. StashOK' /\ DOMAIN conf' = Hosts
    BY <1>0, <2>1 DEF StashOK
  <2> QED
    BY <1>0, <2>1, <2>2, <2>4, <2>5, HolderKept DEF Locked
<1>5. CASE ConfigureVerify(p)
  <2>1. /\ pc[p] = "verify" /\ pc' = [pc EXCEPT ![p] = "activate"]
        /\ UNCHANGED <<stash, type, lock, loc, cut>>
    BY <1>5 DEF ConfigureVerify, Goto, Keep, Told, history
  <2>2. Good(conf', cut, type) /\ DOMAIN conf' = Hosts
    <3>1. CASE test(conf, site)
      BY <1>0, <1>5, <3>1, Tested DEF ConfigureVerify
    <3>2. CASE ~test(conf, site)
      <4>1. conf' = restoreConfigBackup(h, h \in r.had)
        BY <1>5, <3>2 DEF ConfigureVerify
      <4>2. conf' = PutBack(conf, bak, r.had, {h})
        BY <1>0, <4>1 DEF restoreConfigBackup, PutBack
      <4> QED
        BY <1>0, <2>1, <4>2 DEF Under, PutBack
    <3> QED
      BY <3>1, <3>2
  <2>3. DOMAIN bak' = Hosts
    BY <1>5 DEF ConfigureVerify, dropConfigBackup
  <2>4. ReadOK("activate", r, type)
    BY <1>0, <2>1 DEF ReadOK, CertPcs
  <2>5. Under("activate", r)'
    BY <2>1, <2>2 DEF Under
  <2>6. StashOK'
    BY <1>0, <2>1 DEF StashOK
  <2> QED
    BY <1>0, <2>1, <2>2, <2>3, <2>4, <2>5, <2>6, HolderKept DEF Locked
<1>6. CASE ConfigureReload(p)
  <2>1. pc[p] = "activate" /\ lock' = None /\ Done(p) /\ UNCHANGED <<files, type, cut>>
    BY <1>6 DEF ConfigureReload, Release, Keep, Told, history
  <2>2. lock = p
    BY <2>1 DEF IInv, LockOK, Locked
  <2>3. Alone(p) /\ pc'[p] = "idle"
    BY <2>1, Ends DEF IInv
  <2>4. Good(conf', cut, type)
    BY <1>0, <2>1 DEF Under, files
  <2>5. Under(pc[p], loc[p])'
    BY <2>3 DEF Under
  <2>6. StashOK'
    BY <1>0, <2>1 DEF StashOK, files
  <2> QED
    BY <1>0, <2>1, <2>2, <2>3, <2>4, <2>5, <2>6, InsideKept DEF Locked, files
<1> QED
  BY <1>1, <1>2, <1>3, <1>4, <1>5, <1>6

-----------------------------------------------------------------------------
(* bulkGenerateConfigs *)

\* A batch that gives the lock up leaves a good live set.
LEMMA BatchEnds ==
    ASSUME IInv, NEW p \in Procs, pc[p] \in Locked, lock' = None, UNCHANGED <<type, stash, cut>>,
           \/ loc[p].cert /\ Goto(p, "cert_done") /\ loc' = loc
           \/ Goto(p, "reload") /\ loc' = loc
           \/ Done(p),
           DOMAIN conf' = Hosts, DOMAIN bak' = Hosts, Good(conf', cut, type)
    PROVE  IInv'
<1>0. ShapeOK /\ ReadOK(pc[p], loc[p], type) /\ StashOK /\ DOMAIN stash = Hosts
  BY DEF IInv, ShapeOK
<1>1. lock = p
  BY DEF IInv, LockOK
<1>2. Alone(p) /\ pc'[p] \in {"idle", "reload", "cert_done"}
  <2>1. CASE Done(p)
    BY <1>0, <2>1, Ends
  <2>2. ASSUME NEW l \in {"reload", "cert_done"}, l = "cert_done" => loc[p].cert, Goto(p, l), loc' = loc
        PROVE  Alone(p) /\ pc'[p] = l
    <3>1. ReadOK(l, loc[p], type)
      BY <1>0, <2>2 DEF ReadOK, CertPcs
    <3> QED
      BY <1>0, <2>2, <3>1, Goes DEF Alone
  <2> QED
    BY <2>1, <2>2
<1>3. StashOK'
  BY <1>0 DEF StashOK
<1>4. Under(pc[p], loc[p])'
  BY <1>2 DEF Under
<1> QED
  BY <1>0, <1>1, <1>2, <1>3, <1>4, InsideKept DEF Locked

\* Rendering fails: the live set is the one before the backup again.
LEMMA RenderFailed ==
    ASSUME IInv, NEW p \in Procs, ConfigureRenderFails(p)
    PROVE  IInv'
<1> DEFINE r == loc[p]
           h == loc[p].host
<1>0. /\ DOMAIN conf = Hosts /\ DOMAIN bak = Hosts /\ Under(pc[p], r)
  BY DEF IInv, ShapeOK
<1>1. /\ pc[p] = "generate" /\ Done(p) /\ lock' = None /\ UNCHANGED <<type, stash, cut>>
      /\ conf' = restoreConfigBackup(h, h \in r.had) /\ dropConfigBackup(r.had)
  BY DEF ConfigureRenderFails, Release, Keep, Refuse, history
<1>2. conf' = PutBack(conf, bak, r.had, {h})
  BY <1>0, <1>1 DEF restoreConfigBackup, PutBack
<1>3. Good(conf', cut, type) /\ DOMAIN conf' = Hosts /\ DOMAIN bak' = Hosts
  BY <1>0, <1>1, <1>2 DEF Under, PutBack, dropConfigBackup
<1> QED
  BY <1>1, <1>3, BatchEnds DEF Locked

\* The batch is backed up, rendered and tested.
LEMMA Batched ==
    ASSUME IInv, NEW p \in Procs, BulkBackup(p) \/ BulkGenerate(p) \/ BulkTest(p)
    PROVE  IInv'
<1> DEFINE r == loc[p]
           B == DOMAIN loc[p].snap
<1>0. /\ DOMAIN conf = Hosts /\ DOMAIN bak = Hosts /\ DOMAIN stash = Hosts
      /\ DOMAIN loc = Procs /\ DOMAIN pc = Procs /\ DOMAIN r = LocFields
      /\ ReadOK(pc[p], r, type) /\ Under(pc[p], r) /\ StashOK
  BY DEF IInv, ShapeOK
<1>1. CASE BulkBackup(p)
  <2>0. PICK s : s = [r EXCEPT !.had = Had(B)]
    OBVIOUS
  <2>1. /\ pc[p] = "bulk" /\ lock = None /\ lock' = p /\ backupConfig(B) /\ loc' = [loc EXCEPT ![p] = s]
        /\ pc' = [pc EXCEPT ![p] = "bulk_generate"] /\ UNCHANGED <<type, conf, cut>>
    BY <1>1, <2>0 DEF BulkBackup, Batch, Set, Goto, Free, Keep, Told, history
  <2>2. /\ DOMAIN s = LocFields /\ s.snap = r.snap /\ s.cert = r.cert /\ s.kind = r.kind
        /\ s.had = Had(B)
    BY <1>0, <2>0 DEF LocFields
  <2>3. ReadOK("bulk_generate", s, type)
    BY <1>0, <2>1, <2>2 DEF ReadOK, CertPcs
  <2>4. Good(conf, cut, type)
    BY <2>1 DEF IInv, LiveOK, Free
  <2>5. \A g \in Hosts \ cut :
           LET d == PutBack(conf, bak', s.had, B) IN
           d[g] = conf[g] \/ ~Serving(d[g]) \/ (Accepted(d[g]) /\ type[g] # "stream")
    BY <1>0, <2>1, <2>2, Nothing DEF PutBack, backupConfig, Had, StashOK
  <2>6. Good(PutBack(conf, bak', s.had, DOMAIN s.snap), cut, type)
    BY <2>2, <2>4, <2>5, GoodKept
  <2>7. Under("bulk_generate", s)'
    BY <2>1, <2>6 DEF Under
  <2>8. StashOK' /\ DOMAIN bak' = Hosts /\ DOMAIN stash' = Hosts
    BY <1>0, <2>1 DEF StashOK, backupConfig
  <2> QED
    BY <1>0, <2>1, <2>2, <2>3, <2>7, <2>8, HolderKept DEF Locked
<1>2. CASE BulkGenerate(p)
  <2>1. /\ pc[p] = "bulk_generate"
        /\ conf' = [h \in Hosts |-> IF h \in B THEN generateConfig(loc[p].snap[h]) ELSE conf[h]]
        /\ pc' = [pc EXCEPT ![p] = "bulk_test"] /\ UNCHANGED <<bak, stash, type, lock, loc, cut>>
    BY <1>2 DEF BulkGenerate, Batch, Goto, Keep, Told, history
  <2>2. ReadOK("bulk_test", r, type)
    BY <1>0, <2>1 DEF ReadOK, CertPcs
  <2>3. PutBack(conf', bak, r.had, B) = PutBack(conf, bak, r.had, B)
    BY <1>0, <2>1 DEF PutBack
  <2>4. Under("bulk_test", r)'
    BY <1>0, <2>1, <2>3 DEF Under
  <2>5. StashOK' /\ DOMAIN conf' = Hosts
    BY <1>0, <2>1 DEF StashOK
  <2> QED
    BY <1>0, <2>1, <2>2, <2>4, <2>5, HolderKept DEF Locked
<1>3. CASE BulkTest(p)
  <2>1. pc[p] = "bulk_test" /\ UNCHANGED <<type, stash, cut>>
    BY <1>3 DEF BulkTest, Keep, Told, Refuse, history
  <2>2. /\ putBack(p, B) = PutBack(conf, bak, r.had, B)
        /\ Good(putBack(p, B), cut, type) /\ DOMAIN putBack(p, B) = Hosts
    BY <1>0, <2>1 DEF Under, putBack, PutBack
  <2>3. CASE test(conf, site)
    <3>1. /\ dropConfigBackup(r.had) /\ lock' = None /\ conf' = conf /\ AfterBulk(p, TRUE)
      BY <1>3, <2>3 DEF BulkTest, Release
    <3>2. Good(conf', cut, type) /\ DOMAIN bak' = Hosts
      BY <2>3, <3>1, Tested DEF dropConfigBackup
    <3> QED
      BY <1>0, <2>1, <3>1, <3>2, BatchEnds DEF Locked, AfterBulk
  <2>4. CASE ~test(conf, site) /\ test(putBack(p, B), site)
    <3>0. PICK s : s = [r EXCEPT !.left = B]
      OBVIOUS
    <3>1. /\ conf' = putBack(p, B) /\ bak' = bak /\ lock' = lock
          /\ loc' = [loc EXCEPT ![p] = s] /\ pc' = [pc EXCEPT ![p] = "bulk_each"]
      BY <1>3, <2>4, <3>0 DEF BulkTest, Batch, Set, Goto
    <3>2. /\ DOMAIN s = LocFields /\ s.cert = r.cert /\ s.kind = r.kind
          /\ s.had = r.had /\ s.left = B
      BY <1>0, <3>0 DEF LocFields
    <3>3. ReadOK("bulk_each", s, type)
      BY <1>0, <2>1, <3>2 DEF ReadOK, CertPcs
    <3>4. \A h \in s.left \cap Hosts : conf'[h] = IF h \in s.had THEN bak'[h] ELSE None
      BY <3>1, <3>2 DEF putBack
    <3>5. Under("bulk_each", s)'
      BY <2>1, <2>2, <3>1, <3>4 DEF Under
    <3>6. StashOK' /\ DOMAIN conf' = Hosts
      BY <1>0, <2>1, <2>2, <3>1 DEF StashOK
    <3> QED
      BY <1>0, <2>1, <3>1, <3>2, <3>3, <3>5, <3>6, HolderKept DEF Locked
  <2>5. CASE ~test(conf, site) /\ ~test(putBack(p, B), site)
    <3>1. /\ dropConfigBackup(r.had) /\ lock' = None /\ conf' = putBack(p, B) /\ AfterBulk(p, FALSE)
      BY <1>3, <2>5 DEF BulkTest, Batch, Release
    <3>2. Good(conf', cut, type) /\ DOMAIN bak' = Hosts /\ DOMAIN conf' = Hosts
      BY <2>2, <3>1 DEF dropConfigBackup
    <3> QED
      BY <1>0, <2>1, <3>1, <3>2, BatchEnds DEF Locked, AfterBulk
  <2> QED
    BY <2>3, <2>4, <2>5
<1> QED
  BY <1>1, <1>2, <1>3

\* After a refused batch each host is tried alone.
LEMMA TriedAlone ==
    ASSUME IInv, NEW p \in Procs, BulkEach(p) \/ BulkEnd(p)
    PROVE  IInv'
<1> DEFINE r == loc[p]
<1>0. /\ DOMAIN conf = Hosts /\ DOMAIN bak = Hosts /\ DOMAIN stash = Hosts
      /\ DOMAIN loc = Procs /\ DOMAIN pc = Procs /\ DOMAIN r = LocFields
      /\ ReadOK(pc[p], r, type) /\ Under(pc[p], r) /\ StashOK
  BY DEF IInv, ShapeOK
<1>1. CASE BulkEach(p)
  <2>1. pc[p] = "bulk_each" /\ UNCHANGED <<bak, stash, type, lock, cut>>
    BY <1>1 DEF BulkEach, Keep, Told, history
  <2>2. PICK h \in r.left :
           LET new == [conf EXCEPT ![h] = generateConfig(loc[p].snap[h])] IN
           /\ conf' = IF test(new, site) THEN new ELSE putBack(p, {h})
           /\ loc' = [loc EXCEPT ![p].left = @ \ {h},
                                 ![p].bad = IF test(new, site) THEN @ ELSE @ \cup {h}]
           /\ pc' = [pc EXCEPT ![p] = IF r.left = {h} THEN "bulk_end" ELSE "bulk_each"]
    BY <1>1 DEF BulkEach, Goto
  <2> DEFINE new == [conf EXCEPT ![h] = generateConfig(loc[p].snap[h])]
  <2>3. PICK l : l = IF r.left = {h} THEN "bulk_end" ELSE "bulk_each"
    OBVIOUS
  <2>4. PICK s : s = [r EXCEPT !.left = @ \ {h}, !.bad = IF test(new, site) THEN @ ELSE @ \cup {h}]
    OBVIOUS
  <2>5. l \in {"bulk_each", "bulk_end"} /\ pc' = [pc EXCEPT ![p] = l] /\ loc' = [loc EXCEPT ![p] = s]
    BY <2>2, <2>3, <2>4
  <2>6. /\ DOMAIN s = LocFields /\ s.cert = r.cert /\ s.kind = r.kind
        /\ s.had = r.had /\ s.left = r.left \ {h}
    BY <1>0, <2>4 DEF LocFields
  <2>7. ReadOK(l, s, type)
    BY <1>0, <2>1, <2>5, <2>6 DEF ReadOK, CertPcs
  <2>8. /\ Good(conf, cut, type)
        /\ \A g \in r.left \cap Hosts : conf[g] = IF g \in r.had THEN bak[g] ELSE None
    BY <1>0, <2>1 DEF Under
  <2>9. /\ Good(conf', cut, type) /\ DOMAIN conf' = Hosts
        /\ \A g \in Hosts \ {h} : conf'[g] = conf[g]
    <3>1. CASE test(new, site)
      <4>1. conf' = new
        BY <2>2, <3>1
      <4>2. Good(new, cut, type)
        BY <3>1, Tested
      <4> QED
        BY <1>0, <4>1, <4>2
    <3>2. CASE ~test(new, site)
      <4>1. conf' = putBack(p, {h})
        BY <2>2, <3>2
      <4>2. \A g \in Hosts : conf'[g] = conf[g]
        BY <2>8, <4>1 DEF putBack
      <4>3. Good(conf', cut, type)
        BY <2>8, <4>2, GoodKept
      <4> QED
        BY <4>1, <4>2, <4>3 DEF putBack
    <3> QED
      BY <3>1, <3>2
  <2>10. Under(l, s)'
    BY <2>1, <2>5, <2>6, <2>8, <2>9 DEF Under
  <2>11. StashOK'
    BY <1>0, <2>1 DEF StashOK
  <2>12. l \in Locked /\ pc[p] \in Locked
    BY <2>1, <2>5 DEF Locked
  <2>13. DOMAIN bak' = Hosts /\ DOMAIN stash' = Hosts /\ DOMAIN conf' = Hosts
    BY <1>0, <2>1, <2>9
  <2>14. lock' = lock /\ UNCHANGED <<type, cut>> /\ DOMAIN s = LocFields
    BY <2>1, <2>6
  <2> HIDE DEF new
  <2> QED
    BY <2>5, <2>7, <2>10, <2>11, <2>12, <2>13, <2>14, HolderKept
<1>2. CASE BulkEnd(p)
  <2>1. /\ pc[p] = "bulk_end" /\ lock' = None /\ dropConfigBackup(r.had)
        /\ UNCHANGED <<conf, stash, type, cut>>
    BY <1>2 DEF BulkEnd, Release, Keep, Told, history
  <2>2. \/ loc[p].cert /\ Goto(p, "cert_done") /\ loc' = loc
        \/ Goto(p, "reload") /\ loc' = loc
        \/ Done(p)
    BY <1>2 DEF BulkEnd, AfterBulk
  <2>3. Good(conf', cut, type) /\ DOMAIN bak' = Hosts
    BY <1>0, <2>1 DEF Under, dropConfigBackup
  <2> QED
    BY <1>0, <2>1, <2>2, <2>3, BatchEnds DEF Locked
<1> QED
  BY <1>1, <1>2

-----------------------------------------------------------------------------
(* The restart, the start, and the invariant *)

\* A restart leaves a good live set, the hosts then being replaced aside.
LEMMA Restarted == ASSUME IInv, Restart PROVE IInv'
<1>0. /\ DOMAIN conf = Hosts /\ DOMAIN bak = Hosts /\ DOMAIN stash = Hosts
      /\ StashOK /\ lock \in Procs \cup {None}
  BY DEF IInv, ShapeOK, LockOK
<1>1. /\ pc' = [p \in Procs |-> "idle"] /\ loc' = [p \in Procs |-> Idle]
      /\ lock' = None /\ cut' = IF lock = None THEN cut ELSE cut \cup Batch(lock)
      /\ UNCHANGED <<type, conf, bak, stash>>
  BY DEF Restart, Release, files
<1>2. DOMAIN Idle = LocFields /\ Idle.cert = FALSE /\ Idle.kind = None
  BY DEF Idle, Fresh, LocFields
<1>3. Good(conf, cut', type)
  <2>1. CASE lock = None
    BY <1>1, <2>1 DEF IInv, LiveOK, Free
  <2>2. CASE lock # None
    <3> DEFINE r == loc[lock]
    <3>1. /\ pc[lock] \in Locked /\ Under(pc[lock], r) /\ ReadOK(pc[lock], r, type)
          /\ cut' = cut \cup DOMAIN r.snap
      BY <1>0, <1>1, <2>2 DEF IInv, LockOK, Batch
    <3>2. CASE pc[lock] \in {"backup", "activate", "bulk_each", "bulk_end"}
      <4>1. Good(conf, cut, type)
        BY <3>1, <3>2 DEF Under
      <4> QED
        BY <3>1, <4>1, GoodKept
    <3>3. CASE pc[lock] \in {"clear", "generate", "verify"}
      <4>1. Good(PutBack(conf, bak, r.had, {r.host}), cut, type) /\ DOMAIN r.snap = {r.host}
        BY <3>1, <3>3 DEF Under, ReadOK
      <4>2. \A h \in Hosts \ cut' : conf[h] = PutBack(conf, bak, r.had, {r.host})[h]
        BY <3>1, <4>1 DEF PutBack
      <4> QED
        BY <3>1, <4>1, <4>2, GoodKept
    <3>4. CASE pc[lock] \in {"bulk_generate", "bulk_test"}
      <4>1. Good(PutBack(conf, bak, r.had, DOMAIN r.snap), cut, type)
        BY <3>1, <3>4 DEF Under
      <4>2. \A h \in Hosts \ cut' : conf[h] = PutBack(conf, bak, r.had, DOMAIN r.snap)[h]
        BY <3>1 DEF PutBack
      <4> QED
        BY <3>1, <4>1, <4>2, GoodKept
    <3> QED
      BY <3>1, <3>2, <3>3, <3>4 DEF Locked
  <2> QED
    BY <2>1, <2>2
<1>4. ShapeOK'
  BY <1>0, <1>1, <1>2 DEF ShapeOK
<1>5. LockOK'
  BY <1>1, HostAssumption DEF LockOK, Locked, HostAssumption
<1>6. LiveOK'
  BY <1>1, <1>3 DEF LiveOK
<1>7. StashOK'
  BY <1>0, <1>1 DEF StashOK
<1>8. ASSUME NEW p \in Procs PROVE ReadOK(pc[p], loc[p], type)' /\ Under(pc[p], loc[p])'
  <2>1. pc'[p] = "idle" /\ loc'[p] = Idle
    BY <1>1
  <2> QED
    BY <1>2, <2>1 DEF ReadOK, Under, CertPcs
<1> QED
  BY <1>4, <1>5, <1>6, <1>7, <1>8 DEF IInv

\* The invariant holds at the start: nginx serves the hosts that exist.
LEMMA Initially == Init => IInv
<1> SUFFICES ASSUME Init PROVE IInv
  OBVIOUS
<1>1. /\ pc = [p \in Procs |-> "idle"] /\ loc = [p \in Procs |-> Idle] /\ lock = None /\ cut = {}
      /\ bak = [h \in Hosts |-> None] /\ stash = [h \in Hosts |-> None] /\ type \in Typings
      /\ DOMAIN conf = Hosts
  BY DEF Init
<1>2. DOMAIN Idle = LocFields /\ Idle.cert = FALSE /\ Idle.kind = None
  BY DEF Idle, Fresh, LocFields
<1>3. \A h \in Hosts : Serving(conf[h]) => h \in Existing /\ conf[h].set = First[h]
  <2> SUFFICES ASSUME NEW h \in Hosts, Serving(conf[h]) PROVE h \in Existing /\ conf[h].set = First[h]
    OBVIOUS
  <2>1. conf[h] = IF Live(h) THEN generateConfig(Fetched(h)) ELSE None
    BY DEF Init
  <2>2. Live(h)
    BY <2>1 DEF Serving
  <2>3. h \in Existing
    BY <2>2 DEF Init, Live, NoRow
  <2>4. row[h].enabled /\ row[h].set = First[h]
    BY <2>3 DEF Init
  <2>5. Fetched(h).row = row[h]
    BY DEF Fetched
  <2> QED
    BY <2>1, <2>2, <2>3, <2>4, <2>5 DEF generateConfig
<1>4. Good(conf, cut, type)
  BY <1>1, <1>3, HostAssumption DEF Good, Accepted, HostAssumption
<1>5. ShapeOK /\ LiveOK /\ StashOK
  BY <1>1, <1>2, <1>4 DEF ShapeOK, LiveOK, StashOK
<1>6. LockOK
  BY <1>1, HostAssumption DEF LockOK, Locked, HostAssumption
<1>7. ASSUME NEW p \in Procs PROVE ReadOK(pc[p], loc[p], type) /\ Under(pc[p], loc[p])
  <2>1. pc[p] = "idle" /\ loc[p] = Idle
    BY <1>1
  <2> QED
    BY <1>2, <2>1 DEF ReadOK, Under, CertPcs
<1> QED
  BY <1>5, <1>6, <1>7 DEF IInv

\* Every step keeps the invariant.
LEMMA Inductive == IInv /\ [Next]_vars => IInv'
<1> SUFFICES ASSUME IInv, [Next]_vars PROVE IInv'
  OBVIOUS
<1>1. ASSUME NEW p \in Procs, Receive(p) \/ Step(p) PROVE IInv'
  BY <1>1, Received, Handled, Listed, Requested, TakenOut, Configured, RenderFailed, Batched, TriedAlone DEF Step
<1>2. CASE Restart
  BY <1>2, Restarted
<1>3. CASE UNCHANGED vars
  <2>1. /\ type' = type /\ conf' = conf /\ bak' = bak /\ stash' = stash /\ lock' = lock
        /\ pc' = pc /\ loc' = loc /\ cut' = cut
    BY <1>3 DEF vars, files, history
  <2>2. ShapeOK' /\ LockOK' /\ LiveOK' /\ StashOK'
    BY <2>1 DEF IInv, ShapeOK, LockOK, LiveOK, StashOK, Free
  <2>3. ASSUME NEW p \in Procs PROVE ReadOK(pc[p], loc[p], type)' /\ Under(pc[p], loc[p])'
    <3>1. ReadOK(pc[p], loc[p], type) /\ Under(pc[p], loc[p])
      BY DEF IInv
    <3> QED
      BY <2>1, <3>1, Zenon DEF ReadOK, Under
  <2> QED
    BY <2>2, <2>3 DEF IInv
<1> QED
  BY <1>1, <1>2, <1>3 DEF Next

\* For any number of hosts, overlapping requests and restarts: whenever nobody holds the
\* configuration lock, nginx -t accepts the live set, hosts cut short by a restart aside.
THEOREM LiveAlwaysValid == Spec => []LiveSetValid
<1>1. IInv => LiveSetValid
  <2> SUFFICES ASSUME IInv, Free
               PROVE  test([h \in Hosts |-> IF h \in cut THEN None ELSE conf[h]], "good")
    BY DEF LiveSetValid
  <2> DEFINE c == [h \in Hosts |-> IF h \in cut THEN None ELSE conf[h]]
  <2>1. Good(conf, cut, type)
    BY DEF IInv, LiveOK
  <2>2. \A h \in Hosts : c[h] = IF h \in cut THEN None ELSE conf[h]
    OBVIOUS
  <2> HIDE DEF c
  <2>3. \A h \in Hosts : Accepted(c[h])
    BY <2>1, <2>2, Nothing DEF Good
  <2>4. \A g, h \in {x \in Hosts : type[x] = "stream" /\ Serving(c[x])} :
           g # h => Name[c[g].set] # Name[c[h].set]
    BY <2>1, <2>2, Nothing DEF Good
  <2>5. test(c, "good")
    BY <2>3, <2>4 DEF test
  <2> QED
    BY <2>5 DEF c
<1> QED
  BY <1>1, Initially, Inductive, PTL DEF Spec

-----------------------------------------------------------------------------
(* A working conf is never lost *)

HostKinds == {"create", "update", "enable", "disable", "delete"}
HostPcs == {"get", "patch", "fetch", "delete", "configure", "backup", "clear", "generate", "verify", "activate"}
BulkPcs == {"bulk", "bulk_generate", "bulk_test", "bulk_each", "bulk_end"}
ListPcs == {"list_clear", "list_fill", "list_fetch", "list_build", "list_get", "list_drop", "list_detach"}
\* An update's own write is still to come, and merges what the row was.
Before == {"patch"} \cup CertPcs \cup BulkPcs
RowFields == {"alive", "enabled", "set", "acl", "meta"}

\* Which steps a request of a kind takes, and what it brings along.
KindOK(l, r) ==
    /\ r.kind \in HostKinds => r.host \in Hosts
    /\ r.cert => r.kind \in {"create", "update"}
    /\ l \in HostPcs => r.kind \in HostKinds
    /\ l = "delete" => r.kind \in {"disable", "delete"}
    /\ l \in ListPcs => r.kind \in {"list", "unlist"}
    /\ l \in BulkPcs => r.cert \/ r.kind \in {"list", "unlist"}
    /\ r.kind \in {"create", "update"} => r.set \in Settings
    /\ r.rules \in Nat
    /\ r.kind = "update" /\ l # "get" => DOMAIN r.old = RowFields
    /\ l \in {"clear", "generate", "verify"} => r.had \subseteq {r.host}
    /\ l = "bulk_each" => r.left \subseteq DOMAIN r.snap
    /\ l = "bulk_end" => r.left = {}
    /\ l = "get" => r.kind # "create"
    /\ l = "patch" /\ r.kind = "create" => DOMAIN r.snap = {}
    /\ l = "patch" /\ r.kind = "enable" =>
          DOMAIN r.snap[r.host] = {"row", "rules"} /\ DOMAIN r.snap[r.host].row = RowFields

RowsOK ==
    /\ DOMAIN row = Hosts /\ rules \in Nat
    /\ \A h \in Hosts : DOMAIN row[h] = RowFields /\ (Live(h) => row[h].set \in Settings)

Clean(h) == h \notin raced \cup refused
\* A host no save of which raced is one request's at a time.
Sole == \A p, q \in Procs : \A h \in Touches(loc[p]) \cap Touches(loc[q]) : Clean(h) => p = q

Working(c) == Serving(c) /\ Accepted(c)
\* The conf to go back to: live, or stashed by a certificate request.
Held(h) == Working(conf[h]) \/ (conf[h] = None /\ Working(stash[h]))
Fine(x) == x.enabled /\ x.meta = "ok"
\* The row says that the host works, or will when the update's write brings that back.
Due(l, r, h) ==
    Live(h) /\ (Fine(row[h]) \/ (r.kind = "update" /\ h = r.host /\ l \in Before /\ Fine(r.old)))
\* The host's conf is being replaced.
Replaced(l, r, h) ==
    \/ l \in {"clear", "generate", "verify"} /\ h = r.host
    \/ l \in {"bulk_generate", "bulk_test"} /\ h \in DOMAIN r.snap
\* An enabled host has no conf until its first one is tested.
Enabling(l, r, h) ==
    r.kind = "enable" /\ h = r.host /\ l \in {"configure", "backup", "clear", "generate", "verify"}

Snapped(r, h) ==
    h \in DOMAIN r.snap =>
       /\ r.snap[h].row.set \in Settings /\ r.snap[h].rules \in Nat
       /\ Live(h) /\ row[h].enabled => r.snap[h].row.enabled
Rendered(l, r, h) ==
    /\ l = "verify" /\ h = r.host => conf[h] = generateConfig(r.snap[h])
    /\ l = "bulk_test" /\ h \in DOMAIN r.snap => conf[h] = generateConfig(r.snap[h])
    /\ l \in {"bulk_each", "bulk_end"} /\ h \in DOMAIN r.snap \ (r.left \cup r.bad) =>
          conf[h] = generateConfig(r.snap[h]) /\ Accepted(conf[h])

\* What holds of a host while the one request that works on it is at l.
Local(l, r, h) ==
    /\ Snapped(r, h) /\ Rendered(l, r, h)
    /\ r.kind = "update" /\ h = r.host /\ l # "get" => r.old.enabled = row[h].enabled
    /\ l = "delete" => ~(Live(h) /\ row[h].enabled)
    /\ Due(l, r, h) =>
          \/ Enabling(l, r, h)
          \/ ~Replaced(l, r, h) /\ Held(h)
          \/ Replaced(l, r, h) /\ h \in r.had /\ Working(bak[h])

Untouched(h) == \A p \in Procs : h \notin Touches(loc[p])
Kept ==
    /\ \A p \in Procs : \A h \in Hosts \cap Touches(loc[p]) : Clean(h) => Local(pc[p], loc[p], h)
    /\ \A h \in Hosts : Clean(h) /\ Untouched(h) /\ Live(h) /\ Fine(row[h]) => Held(h)

KindsOK == \A p \in Procs : KindOK(pc[p], loc[p])
RInv == RowsOK /\ KindsOK /\ Sole /\ Kept

\* The hosts a request works on follow from its kind.
LEMMA TouchesKind ==
    ASSUME NEW l, NEW r, KindOK(l, r), r.kind \in AllKinds
    PROVE  /\ r.cert \/ r.kind \in {"list", "unlist", "site"} => Touches(r) = Hosts
           /\ ~r.cert /\ r.kind \in HostKinds => Touches(r) = {r.host}
           /\ r.kind \in HostKinds => r.host \in Touches(r)
<1>1. r.kind # None
  BY HostAssumption DEF HostAssumption
<1> QED
  BY <1>1 DEF Touches, KindOK, HostKinds

\* They do not change as the request goes on.
LEMMA SameTouches ==
    ASSUME NEW r, NEW s, r.kind = s.kind, r.cert = s.cert, r.host = s.host
    PROVE  Touches(r) = Touches(s)
BY DEF Touches

\* A request that has ended works on no host.
LEMMA IdleTouches == Touches(Idle) = {} /\ \A l \in {"idle"} : KindOK(l, Idle)
<1>1. Idle.kind = None /\ Idle.cert = FALSE /\ Idle.rules = 0
  BY DEF Idle, Fresh
<1>2. None \notin AllKinds
  BY HostAssumption DEF HostAssumption
<1> QED
  BY <1>1, <1>2 DEF Touches, KindOK, HostKinds, AllKinds, HostPcs, ListPcs, BulkPcs

\* A conf rendered for an enabled host serves it.
LEMMA Renders ==
    ASSUME NEW s, s.row.enabled, s.row.set \in Settings, s.rules \in Nat
    PROVE  Serving(generateConfig(s))
<1> DEFINE c == [set |-> s.row.set, rules |-> IF s.row.acl THEN s.rules ELSE Open]
<1>1. generateConfig(s) = c
  BY DEF generateConfig
<1>2. c \in [set : Settings, rules : Nat \cup {None}]
  BY DEF Open
<1>3. c # None /\ c.set # None
  BY <1>2, HostAssumption DEF HostAssumption
<1> HIDE DEF c
<1>4. Shell.set = None
  BY DEF Shell
<1> QED
  BY <1>1, <1>3, <1>4 DEF Serving

\* The row and the files of a host are left alone.
Same(h) == row'[h] = row[h] /\ conf'[h] = conf[h] /\ bak'[h] = bak[h] /\ stash'[h] = stash[h]
Others(p) == \A q \in Procs \ {p} : pc'[q] = pc[q] /\ loc'[q] = loc[q]

\* Then nothing changes for the request that works on it.
LEMMA LocalSame ==
    ASSUME NEW l, NEW r, NEW h, Local(l, r, h), Same(h)
    PROVE  Local(l, r, h)'
<1>1. /\ row'[h] = row[h] /\ conf'[h] = conf[h] /\ bak'[h] = bak[h] /\ stash'[h] = stash[h]
  BY DEF Same
<1>2. (Live(h)' <=> Live(h)) /\ (Held(h)' <=> Held(h))
  BY <1>1 DEF Live, Held, Working
<1>3. Snapped(r, h)' /\ Rendered(l, r, h)'
  BY <1>1, <1>2 DEF Local, Snapped, Rendered
<1>4. Due(l, r, h)' <=> Due(l, r, h)
  BY <1>1, <1>2 DEF Due
<1> QED
  BY <1>1, <1>2, <1>3, <1>4 DEF Local

\* A step of one request keeps the invariant if it keeps it for the hosts it works on.
LEMMA RKept ==
    ASSUME RInv, NEW p \in Procs, NEW l, NEW r, pc'[p] = l, loc'[p] = r, Others(p),
           RowsOK', KindOK(l, r), raced \subseteq raced', refused \subseteq refused',
           Touches(r) \subseteq Touches(loc[p]),
           \A h \in Hosts \ Touches(loc[p]) : Same(h),
           \A h \in Hosts \cap Touches(r) : Clean(h)' => Local(l, r, h)',
           \A h \in Hosts \ Touches(r) :
              h \in Touches(loc[p]) /\ Clean(h)' /\ Live(h)' /\ Fine(row'[h]) => Held(h)'
    PROVE  RInv'
<1> USE DEF RInv
<1>0. \A h : Clean(h)' => Clean(h)
  BY DEF Clean
<1>1. KindsOK'
  BY DEF KindsOK, Others
<1>2. ASSUME NEW q \in Procs PROVE Touches(loc'[q]) \subseteq Touches(loc[q])
  BY DEF Others
<1>3. Sole'
  <2> SUFFICES ASSUME NEW q \in Procs, NEW s \in Procs,
                      NEW h \in Touches(loc'[q]) \cap Touches(loc'[s]), Clean(h)'
               PROVE  q = s
    BY DEF Sole
  <2>1. h \in Touches(loc[q]) \cap Touches(loc[s]) /\ Clean(h)
    BY <1>0, <1>2
  <2> QED
    BY <2>1 DEF Sole
<1>4. ASSUME NEW q \in Procs, NEW h \in Hosts \cap Touches(loc'[q]), Clean(h)'
      PROVE  Local(pc[q], loc[q], h)'
  <2>1. CASE q = p
    <3>1. Local(l, r, h)'
      BY <1>4, <2>1
    <3> QED
      BY <2>1, <3>1, Zenon DEF Local, Snapped, Rendered, Due, Enabling, Replaced
  <2>2. CASE q # p
    <3>1. h \in Touches(loc[q]) /\ Clean(h)
      BY <1>0, <1>2, <1>4
    <3>2. h \notin Touches(loc[p])
      BY <2>2, <3>1 DEF Sole
    <3>3. Local(pc[q], loc[q], h) /\ Same(h)
      BY <3>1, <3>2 DEF Kept
    <3>4. PICK k, s : k = pc[q] /\ s = loc[q]
      OBVIOUS
    <3>5. Local(k, s, h)'
      BY <3>3, <3>4, LocalSame
    <3>6. pc'[q] = k /\ loc'[q] = s
      BY <2>2, <3>4 DEF Others
    <3> QED
      BY <3>5, <3>6, Zenon DEF Local, Snapped, Rendered, Due, Enabling, Replaced
  <2> QED
    BY <2>1, <2>2
<1>5. ASSUME NEW h \in Hosts, Clean(h)', Untouched(h)', Live(h)', Fine(row'[h])
      PROVE  Held(h)'
  <2>1. h \notin Touches(r)
    BY <1>5 DEF Untouched
  <2>2. CASE h \in Touches(loc[p])
    BY <1>5, <2>1, <2>2
  <2>3. CASE h \notin Touches(loc[p])
    <3>1. Same(h) /\ Clean(h)
      BY <1>0, <1>5, <2>3
    <3>2. Untouched(h)
      BY <1>5, <2>3 DEF Untouched, Others
    <3>3. Live(h) /\ Fine(row[h])
      BY <1>5, <3>1 DEF Same, Live
    <3>4. Held(h)
      BY <3>1, <3>2, <3>3 DEF Kept
    <3> QED
      BY <3>1, <3>4 DEF Same, Held, Working
  <2> QED
    BY <2>2, <2>3
<1> QED
  BY <1>1, <1>3, <1>4, <1>5 DEF Kept

\* Where a host may be without the conf that works: it is being replaced or first made.
Busy == {"configure", "backup", "clear", "generate", "verify", "bulk_generate", "bulk_test"}
Worse == raced \subseteq raced' /\ refused \subseteq refused'

\* A request that ends elsewhere leaves its hosts with their confs.
LEMMA REnds ==
    ASSUME IInv, RInv, NEW p \in Procs, Done(p), UNCHANGED <<row, conf, bak, stash>>, rules' \in Nat, Worse,
           pc[p] \notin Busy
    PROVE  RInv'
<1>1. pc'[p] = "idle" /\ loc'[p] = Idle /\ Others(p)
  BY DEF IInv, ShapeOK, Done, Goto, Others
<1>2. \A h \in Hosts : Same(h)
  BY DEF Same
<1>3. RowsOK'
  BY DEF RInv, RowsOK, Live
<1>4. ASSUME NEW h \in Hosts, h \in Touches(loc[p]), Clean(h)', Live(h)', Fine(row'[h])
      PROVE  Held(h)'
  <2>1. Clean(h) /\ Live(h) /\ Fine(row[h])
    BY <1>4 DEF Worse, Clean, Live
  <2>2. Local(pc[p], loc[p], h)
    BY <1>4, <2>1 DEF RInv, Kept
  <2>3. Due(pc[p], loc[p], h) /\ ~Enabling(pc[p], loc[p], h) /\ ~Replaced(pc[p], loc[p], h)
    BY <2>1 DEF Due, Enabling, Replaced, Busy
  <2>4. Held(h)
    BY <2>2, <2>3 DEF Local
  <2> QED
    BY <2>4 DEF Held
<1> QED
  BY <1>1, <1>2, <1>3, <1>4, IdleTouches, RKept DEF Worse

\* A request that fails leaves its hosts on the list of failures.
LEMMA RRefuses ==
    ASSUME IInv, RInv, NEW p \in Procs, Done(p), Refuse(p), RowsOK',
           \A h \in Hosts \ Touches(loc[p]) : Same(h)
    PROVE  RInv'
<1>1. pc'[p] = "idle" /\ loc'[p] = Idle /\ Others(p)
  BY DEF IInv, ShapeOK, Done, Goto, Others
<1>2. \A h \in Touches(loc[p]) : ~Clean(h)'
  BY DEF Refuse, Clean
<1> QED
  BY <1>1, <1>2, IdleTouches, RKept DEF Refuse

\* A request that only reads goes on: what it has read of a host is what the row says.
LEMMA RMoves ==
    ASSUME RInv, NEW p \in Procs, NEW l, NEW r, pc'[p] = l, loc'[p] = r, Others(p),
           UNCHANGED <<row, conf, bak, stash>>, rules' \in Nat, Worse, KindOK(l, r),
           r.kind = loc[p].kind, r.host = loc[p].host, r.cert = loc[p].cert,
           pc[p] \notin Busy \/ (pc[p] = "configure" /\ l = "backup"),
           l \notin {"delete", "clear", "generate", "verify", "bulk_generate", "bulk_test", "bulk_each", "bulk_end"},
           \A h \in Hosts \cap Touches(loc[p]) : Clean(h) =>
              /\ Snapped(r, h)
              /\ r.kind = "update" /\ h = r.host /\ l # "get" => r.old.enabled = row[h].enabled
              /\ Due(l, r, h) => Due(pc[p], loc[p], h)
    PROVE  RInv'
<1>1. \A h \in Hosts : Same(h)
  BY DEF Same
<1>2. RowsOK'
  BY DEF RInv, RowsOK, Live
<1>3. Touches(r) = Touches(loc[p])
  BY SameTouches
<1>4. ASSUME NEW h \in Hosts \cap Touches(r), Clean(h)' PROVE Local(l, r, h)'
  <2>1. Clean(h) /\ h \in Touches(loc[p])
    BY <1>3, <1>4 DEF Worse, Clean
  <2>2. Local(pc[p], loc[p], h)
    BY <1>4, <2>1 DEF RInv, Kept
  <2>3. /\ Snapped(r, h) /\ Rendered(l, r, h) /\ ~Replaced(l, r, h)
        /\ r.kind = "update" /\ h = r.host /\ l # "get" => r.old.enabled = row[h].enabled
    BY <2>1 DEF Rendered, Replaced
  <2>4. ASSUME Due(l, r, h) PROVE Enabling(l, r, h) \/ Held(h)
    <3>1. Due(pc[p], loc[p], h)
      BY <2>1, <2>4
    <3>2. ~Replaced(pc[p], loc[p], h) /\ (Enabling(pc[p], loc[p], h) => Enabling(l, r, h))
      BY DEF Replaced, Enabling, Busy
    <3> QED
      BY <2>2, <3>1, <3>2 DEF Local
  <2>5. Local(l, r, h)
    BY <2>3, <2>4 DEF Local
  <2> QED
    BY <1>1, <2>5, LocalSame
<1> QED
  BY <1>1, <1>2, <1>3, <1>4, RKept DEF Worse

\* A request that goes on with what it has read.
LEMMA RGoes ==
    ASSUME IInv, RInv, NEW p \in Procs, NEW l, Goto(p, l), loc' = loc,
           UNCHANGED <<row, conf, bak, stash>>, rules' \in Nat, Worse, KindOK(l, loc[p]), pc[p] # "get",
           pc[p] \notin Busy \/ (pc[p] = "configure" /\ l = "backup"),
           l \notin {"delete", "clear", "generate", "verify", "bulk_generate", "bulk_test", "bulk_each", "bulk_end"},
           l \in Before /\ loc[p].kind = "update" => pc[p] \in Before
    PROVE  RInv'
<1>1. PICK r : r = loc[p]
  OBVIOUS
<1>2. pc'[p] = l /\ loc'[p] = r /\ Others(p)
  BY <1>1 DEF IInv, ShapeOK, Goto, Others
<1>3. ASSUME NEW h \in Hosts \cap Touches(loc[p]), Clean(h)
      PROVE  /\ Snapped(r, h)
             /\ r.kind = "update" /\ h = r.host /\ l # "get" => r.old.enabled = row[h].enabled
             /\ Due(l, r, h) => Due(pc[p], loc[p], h)
  <2>1. Local(pc[p], r, h)
    BY <1>1, <1>3 DEF RInv, Kept
  <2> QED
    BY <1>1, <2>1 DEF Local, Due
<1> QED
  BY <1>1, <1>2, <1>3, RMoves

\* The same request, further on.
From(r, k) == r.kind = k.kind /\ r.host = k.host /\ r.cert = k.cert /\ r.set = k.set

\* The rows of live hosts have settings.
LEMMA Fetches ==
    ASSUME RowsOK, NEW h \in Hosts, Live(h)
    PROVE  Fetched(h).row = row[h] /\ row[h].set \in Settings /\ Fetched(h).rules \in Nat
BY DEF RowsOK, Fetched

\* The access list, its rows aside.
LEMMA RListed ==
    ASSUME IInv, RInv, NEW p \in Procs,
           ListClear(p) \/ ListFill(p) \/ ListFetch(p) \/ ListBuild(p) \/ ListGet(p) \/ ListDrop(p)
    PROVE  RInv'
<1> DEFINE k == loc[p]
<1>0. DOMAIN k = LocFields /\ KindOK(pc[p], k) /\ rules \in Nat /\ RowsOK
  BY DEF IInv, ShapeOK, RInv, KindsOK, RowsOK
<1>1. /\ pc[p] \in {"list_clear", "list_fill", "list_fetch", "list_build", "list_get", "list_drop"}
      /\ UNCHANGED <<row, conf, bak, stash>> /\ Worse
  BY DEF ListClear, ListFill, ListFetch, ListBuild, ListGet, ListDrop, Keep, KeepFiles, Told, history, files,
         Worse, KeepDb, db
<1>2. k.kind \in {"list", "unlist"} /\ pc[p] \notin Busy
  BY <1>0, <1>1 DEF KindOK, ListPcs, Busy
<1>3. rules' \in Nat
  BY <1>0 DEF ListClear, ListFill, ListFetch, ListBuild, ListGet, ListDrop, KeepDb, db, KindOK
<1>4. CASE Done(p)
  BY <1>1, <1>2, <1>3, <1>4, REnds
<1>5. ASSUME NEW l \in {"list_build", "list_drop"}, NEW r, NEW s,
             loc' = [loc EXCEPT ![p] = r], From(r, k), r.snap = s, r.rules \in Nat,
             pc' = [pc EXCEPT ![p] = l], DOMAIN s = Users,
             \A h \in Users : /\ s[h].row.set = row[h].set /\ s[h].row.enabled = row[h].enabled
                              /\ s[h].rules = Fetched(h).rules
      PROVE  RInv'
  <2>2. r.kind = k.kind /\ r.host = k.host /\ r.cert = k.cert /\ r.set = k.set
    BY <1>5 DEF From
  <2>3. KindOK(l, r)
    BY <1>0, <1>2, <1>5, <2>2 DEF KindOK, HostKinds, HostPcs, ListPcs, BulkPcs
  <2>4. pc'[p] = l /\ loc'[p] = r /\ Others(p)
    BY <1>5 DEF IInv, ShapeOK, Others
  <2>5. ASSUME NEW h \in Hosts \cap Touches(loc[p]), Clean(h)
        PROVE  Snapped(r, h) /\ (Due(l, r, h) => Due(pc[p], loc[p], h))
    BY <1>0, <1>2, <1>5, <2>2, Fetches DEF Snapped, Due, Users
  <2> QED
    BY <1>1, <1>2, <1>3, <1>5, <2>2, <2>3, <2>4, <2>5, RMoves
<1>7. CASE ~Done(p) /\ ListFetch(p)
  <2>1. PICK s : s = [h \in Users |-> Fetched(h)]
    OBVIOUS
  <2>2. PICK r : r = [k EXCEPT !.rules = rules, !.snap = s]
    OBVIOUS
  <2>3. loc' = [loc EXCEPT ![p] = r] /\ pc' = [pc EXCEPT ![p] = "list_build"]
    BY <1>7, <2>1, <2>2 DEF ListFetch, Goto
  <2>4. DOMAIN s = Users /\ \A h \in Users : s[h].row = row[h] /\ s[h].rules = Fetched(h).rules
    BY <2>1 DEF Fetched
  <2>5. From(r, k) /\ r.snap = s /\ r.rules \in Nat
    BY <1>0, <2>2 DEF LocFields, From
  <2> QED
    BY <1>5, <2>3, <2>4, <2>5
<1>8. CASE ~Done(p) /\ ListGet(p)
  <2>1. PICK s : s = [h \in Users |-> [Fetched(h) EXCEPT !.row.acl = FALSE]]
    OBVIOUS
  <2>2. PICK r : r = [k EXCEPT !.snap = s]
    OBVIOUS
  <2>3. From(r, k) /\ r.snap = s /\ r.rules \in Nat
    BY <1>0, <2>2 DEF LocFields, KindOK, From
  <2>4. loc' = [loc EXCEPT ![p] = r] /\ pc' = [pc EXCEPT ![p] = "list_drop"]
    BY <1>8, <2>1, <2>2 DEF ListGet, Goto, Set
  <2>5. ASSUME NEW h \in Users
        PROVE  /\ s[h].row.set = row[h].set /\ s[h].row.enabled = row[h].enabled
               /\ s[h].rules = Fetched(h).rules
    <3>1. h \in Hosts /\ DOMAIN row[h] = RowFields
      BY <1>0 DEF Users, RowsOK
    <3>2. PICK f : f = Fetched(h)
      OBVIOUS
    <3>3. DOMAIN f = {"row", "rules"} /\ f.row = row[h]
      BY <3>2 DEF Fetched
    <3>4. s[h] = [f EXCEPT !.row.acl = FALSE]
      BY <2>1, <3>2
    <3>5. s[h].row = [row[h] EXCEPT !.acl = FALSE] /\ s[h].rules = f.rules
      BY <3>3, <3>4
    <3> QED
      BY <3>1, <3>2, <3>5 DEF RowFields
  <2>6. DOMAIN s = Users
    BY <2>1
  <2> HIDE DEF k
  <2> QED
    BY <1>5, <2>3, <2>4, <2>5, <2>6, Zenon
<1>6. CASE ListClear(p) \/ ListFill(p) \/ ListBuild(p) \/ ListDrop(p)
  <2>1. PICK l \in {"list_fill", "list_fetch", "reload", "bulk", "list_detach"} : Goto(p, l) /\ loc' = loc
    BY <1>6 DEF ListClear, ListFill, ListBuild, ListDrop
  <2>2. KindOK(l, k)
    BY <1>0, <1>2 DEF KindOK, HostKinds, HostPcs, ListPcs
  <2> QED
    BY <1>1, <1>2, <1>3, <2>1, <2>2, RGoes DEF Before, CertPcs
<1> QED
  BY <1>4, <1>6, <1>7, <1>8

\* What a request reads of a host is what its row says.
LEMMA RReads ==
    ASSUME IInv, RInv, NEW p \in Procs,
           Get(p) \/ Fetch(p) \/ getHostsWithDomains(p) \/ requestLetsEncryptSsl(p)
    PROVE  RInv'
<1> DEFINE k == loc[p]
<1>0. DOMAIN k = LocFields /\ KindOK(pc[p], k) /\ RowsOK /\ ReadOK(pc[p], k, type)
  BY DEF IInv, ShapeOK, RInv, KindsOK
<1>1. /\ pc[p] \in {"get", "fetch", "cert_find", "cert_request"} /\ pc[p] \notin Busy
      /\ UNCHANGED <<row, conf, bak, stash>> /\ Worse /\ rules' \in Nat
  BY <1>0 DEF Get, Fetch, getHostsWithDomains, requestLetsEncryptSsl, Keep, KeepFiles, Told, history, files,
         Worse, KeepDb, db, Busy, RowsOK
<1>2. CASE Done(p)
  BY <1>1, <1>2, REnds
<1>3. ASSUME NEW l \in {"patch", "cert_find", "configure", "cert_stash", "cert_done", "bulk"}, NEW r,
             loc' = [loc EXCEPT ![p] = r], pc' = [pc EXCEPT ![p] = l], From(r, k), KindOK(l, r),
             \A h \in Hosts \cap Touches(k) : Clean(h) => Snapped(r, h),
             k.kind = "update" => \/ r.old = row[k.host] /\ pc[p] = "get"
                                  \/ r.old = k.old /\ (l \in Before => pc[p] \in Before) /\ pc[p] # "get"
      PROVE  RInv'
  <2>1. pc'[p] = l /\ loc'[p] = r /\ Others(p)
    BY <1>3 DEF IInv, ShapeOK, Others
  <2>2. r.kind = k.kind /\ r.host = k.host /\ r.cert = k.cert
    BY <1>3 DEF From
  <2>3. ASSUME NEW h \in Hosts \cap Touches(loc[p]), Clean(h)
        PROVE  /\ Snapped(r, h)
               /\ r.kind = "update" /\ h = r.host /\ l # "get" => r.old.enabled = row[h].enabled
               /\ Due(l, r, h) => Due(pc[p], loc[p], h)
    <3>1. Local(pc[p], k, h)
      BY <2>3 DEF RInv, Kept
    <3>2. Snapped(r, h)
      BY <1>3, <2>3
    <3>3. ASSUME r.kind = "update", h = r.host PROVE r.old.enabled = row[h].enabled
      BY <1>3, <2>2, <3>1, <3>3 DEF Local
    <3>4. Due(l, r, h) => Due(pc[p], loc[p], h)
      BY <1>3, <2>2 DEF Due, Before
    <3> QED
      BY <3>2, <3>3, <3>4
  <2> QED
    BY <1>1, <1>3, <2>1, <2>2, <2>3, RMoves
<1>4. CASE Get(p) /\ ~Done(p)
  <2> DEFINE h == k.host
  <2>1. PICK r : r = [k EXCEPT !.old = row[h], !.snap = [x \in {h} |-> Fetched(h)]]
    OBVIOUS
  <2>2. PICK l : l = IF k.cert THEN "cert_find" ELSE "patch"
    OBVIOUS
  <2>3. /\ loc' = [loc EXCEPT ![p] = r] /\ pc' = [pc EXCEPT ![p] = l] /\ pc[p] = "get" /\ Live(h)
        /\ l \in {"cert_find", "patch"}
    BY <1>4, <2>1, <2>2 DEF Get, Goto
  <2>4. From(r, k) /\ r.old = row[h] /\ r.snap = [x \in {h} |-> Fetched(h)] /\ r.rules = k.rules
    BY <1>0, <2>1 DEF LocFields, From
  <2>5. h \in Hosts
    BY <1>0, <2>3 DEF KindOK, HostPcs
  <2>6. KindOK(l, r)
    <3>1. DOMAIN r.snap[h] = {"row", "rules"} /\ r.snap[h].row = row[h]
      BY <2>4 DEF Fetched
    <3> QED
      BY <1>0, <2>3, <2>4, <2>5, <3>1 DEF KindOK, From, RowsOK, HostPcs, ListPcs, BulkPcs
  <2>7. ASSUME NEW g \in Hosts PROVE Snapped(r, g)
    BY <1>0, <2>3, <2>4, Fetches DEF Snapped
  <2> QED
    BY <1>3, <2>3, <2>4, <2>6, <2>7
<1>5. CASE Fetch(p) /\ ~Done(p)
  <2> DEFINE h == k.host
  <2>1. PICK r : r = [k EXCEPT !.snap = [x \in {h} |-> Fetched(x)]]
    OBVIOUS
  <2>3. /\ loc' = [loc EXCEPT ![p] = r] /\ pc' = [pc EXCEPT ![p] = "configure"] /\ pc[p] = "fetch" /\ Live(h)
    BY <1>5, <2>1 DEF Fetch, Load, Set, Goto
  <2>4. From(r, k) /\ r.old = k.old /\ r.snap = [x \in {h} |-> Fetched(x)] /\ r.rules = k.rules
    BY <1>0, <2>1 DEF LocFields, From
  <2>6. KindOK("configure", r)
    BY <1>0, <2>3, <2>4 DEF KindOK, From, HostPcs, ListPcs, BulkPcs
  <2>7. ASSUME NEW g \in Hosts PROVE Snapped(r, g)
    BY <1>0, <2>3, <2>4, Fetches DEF Snapped
  <2> QED
    BY <1>3, <2>3, <2>4, <2>6, <2>7 DEF Before, CertPcs, BulkPcs
<1>6. CASE getHostsWithDomains(p)
  <2>0. PICK B : B = {h \in Hosts : Live(h) /\ type[h] # "stream" /\ Name[row[h].set] = Name[loc[p].set]}
    OBVIOUS
  <2>1. PICK r : r = [k EXCEPT !.snap = [h \in B |-> Fetched(h)]]
    OBVIOUS
  <2>3. /\ loc' = [loc EXCEPT ![p] = r] /\ pc' = [pc EXCEPT ![p] = "cert_stash"] /\ pc[p] = "cert_find"
    BY <1>6, <2>0, <2>1 DEF getHostsWithDomains, Load, Set, Goto
  <2>4. From(r, k) /\ r.old = k.old /\ r.snap = [h \in B |-> Fetched(h)] /\ r.rules = k.rules
    BY <1>0, <2>1 DEF LocFields, From
  <2>6. KindOK("cert_stash", r)
    BY <1>0, <2>3, <2>4 DEF KindOK, From, HostPcs, ListPcs, BulkPcs
  <2>7. ASSUME NEW g \in Hosts PROVE Snapped(r, g)
    BY <1>0, <2>0, <2>4, Fetches DEF Snapped
  <2> QED
    BY <1>3, <2>3, <2>4, <2>6, <2>7 DEF Before, CertPcs
<1>7. CASE requestLetsEncryptSsl(p)
  <2>0. PICK ok \in BOOLEAN : Set(p, "issued", ok)
    BY <1>7, Zenon DEF requestLetsEncryptSsl
  <2>1. PICK r : r = [k EXCEPT !.issued = ok]
    OBVIOUS
  <2>2. PICK l : l = IF Batch(p) = {} THEN "cert_done" ELSE "bulk"
    OBVIOUS
  <2>3. /\ pc' = [pc EXCEPT ![p] = l] /\ pc[p] = "cert_request" /\ l \in {"cert_done", "bulk"}
    BY <1>7, <2>2 DEF requestLetsEncryptSsl, Goto
  <2>4. loc' = [loc EXCEPT ![p] = r]
    BY <2>0, <2>1 DEF Set
  <2>5. From(r, k) /\ r.old = k.old /\ r.snap = k.snap /\ r.rules = k.rules
    BY <1>0, <2>1 DEF LocFields, From
  <2>6. KindOK(l, r)
    BY <1>0, <2>3, <2>5 DEF KindOK, From, HostPcs, ListPcs, BulkPcs, ReadOK, CertPcs
  <2>7. ASSUME NEW g \in Hosts \cap Touches(k), Clean(g) PROVE Snapped(r, g)
    <3>1. Local(pc[p], k, g)
      BY <2>7 DEF RInv, Kept
    <3> QED
      BY <2>5, <3>1 DEF Local, Snapped
  <2> HIDE DEF k
  <2> QED
    BY <1>3, <2>3, <2>4, <2>5, <2>6, <2>7 DEF Before, CertPcs, BulkPcs
<1> QED
  BY <1>2, <1>4, <1>5, <1>6, <1>7

\* The certificate request's end, the default site and the reloads.
LEMMA RGoesOn ==
    ASSUME IInv, RInv, NEW p \in Procs,
           \/ reload(p) \/ CertDone(p)
           \/ SiteDelete(p) \/ SiteGenerate(p) \/ SiteReload(p) \/ SiteUndo(p)
    PROVE  RInv'
<1> DEFINE k == loc[p]
<1>0. KindOK(pc[p], k) /\ RowsOK /\ ReadOK(pc[p], k, type)
  BY DEF IInv, RInv, KindsOK
<1>1. /\ pc[p] \in {"reload", "cert_done", "site_delete", "site_generate", "site_reload", "site_undo"}
      /\ UNCHANGED <<row, conf, bak, stash>> /\ Worse /\ rules' \in Nat
  BY <1>0 DEF reload, CertDone, SiteDelete, SiteGenerate, SiteReload, SiteUndo, SiteWrite, Keep, Told, Refuse,
         history, files, Worse, KeepDb, db, RowsOK
<1>2. pc[p] \notin Busy
  BY <1>1 DEF Busy
<1>3. CASE Done(p)
  BY <1>1, <1>2, <1>3, REnds
<1>4. CASE CertDone(p) /\ ~Done(p)
  <2>1. PICK l \in {"fetch", "patch"} : /\ Goto(p, l) /\ loc' = loc /\ pc[p] = "cert_done"
                                        /\ l = "patch" => k.kind # "create"
    BY <1>4 DEF CertDone
  <2>2. k.cert
    BY <1>0, <2>1 DEF ReadOK, CertPcs
  <2>3. KindOK(l, k)
    BY <1>0, <2>1, <2>2 DEF KindOK, HostKinds, HostPcs, ListPcs, BulkPcs
  <2> QED
    BY <1>1, <1>2, <2>1, <2>3, RGoes DEF Before, CertPcs
<1>5. CASE (SiteDelete(p) \/ SiteGenerate(p) \/ SiteReload(p) \/ SiteUndo(p)) /\ ~Done(p)
  <2>1. PICK l \in {"site_generate", "site_reload", "site_undo", "reload"} : Goto(p, l) /\ loc' = loc
    BY <1>5 DEF SiteDelete, SiteGenerate, SiteReload, SiteUndo, SiteWrite
  <2>2. KindOK(l, k)
    BY <1>0, <1>1, <2>1 DEF KindOK, HostPcs, ListPcs, BulkPcs
  <2> QED
    BY <1>1, <1>2, <2>1, <2>2, RGoes DEF Before, CertPcs, BulkPcs
<1> QED
  BY <1>3, <1>4, <1>5 DEF reload

\* A request begins: it races with whatever works on the same hosts.
LEMMA RBegins ==
    ASSUME IInv, RInv, NEW p \in Procs, NEW l \in {"get", "patch", "list_clear", "list_get", "site_delete"}, NEW r,
           Request(p, r, l), KindOK(l, r), DOMAIN r.snap = {}, r.kind = "update" => l = "get"
    PROVE  RInv'
<1>1. /\ pc[p] = "idle" /\ pc' = [pc EXCEPT ![p] = l] /\ loc' = [loc EXCEPT ![p] = r]
      /\ UNCHANGED <<row, rules, conf, bak, stash, refused>>
      /\ raced' = raced \cup UNION {Touches(r) \cap Touches(loc[q]) : q \in Procs}
  BY DEF Request, Goto, KeepDb, KeepFiles, db, files
<1>2. pc'[p] = l /\ loc'[p] = r /\ Others(p)
  BY <1>1 DEF IInv, ShapeOK, Others
<1>3. RowsOK' /\ \A h \in Hosts : Same(h)
  BY <1>1 DEF RInv, RowsOK, Live, Same
<1>4. ASSUME NEW h, Clean(h)'
      PROVE  Clean(h) /\ (h \in Touches(r) => \A q \in Procs : h \notin Touches(loc[q]))
  BY <1>1, <1>4 DEF Clean
<1>5. KindsOK'
  BY <1>2 DEF RInv, KindsOK, Others
<1>6. Sole'
  <2> SUFFICES ASSUME NEW q \in Procs, NEW s \in Procs,
                      NEW h \in Touches(loc'[q]) \cap Touches(loc'[s]), Clean(h)'
               PROVE  q = s
    BY DEF Sole
  <2>1. CASE q # p /\ s # p
    BY <1>2, <1>4, <2>1 DEF RInv, Sole, Others
  <2>2. CASE q = p \/ s = p
    BY <1>2, <1>4, <2>2 DEF Others
  <2> QED
    BY <2>1, <2>2
<1>7. ASSUME NEW h \in Hosts, Clean(h), Live(h), Fine(row[h]),
             Untouched(h) \/ (h \in Touches(loc[p]) /\ \A q \in Procs \ {p} : h \notin Touches(loc[q]))
      PROVE  Held(h)
  <2>1. CASE Untouched(h)
    BY <1>7, <2>1 DEF RInv, Kept
  <2>2. CASE h \in Touches(loc[p])
    <3>1. Local("idle", loc[p], h)
      BY <1>1, <1>7, <2>2 DEF RInv, Kept
    <3>2. Due("idle", loc[p], h) /\ ~Enabling("idle", loc[p], h) /\ ~Replaced("idle", loc[p], h)
      BY <1>7 DEF Due, Enabling, Replaced
    <3> QED
      BY <3>1, <3>2 DEF Local
  <2> QED
    BY <1>7, <2>1, <2>2
<1>8. ASSUME NEW h \in Hosts \cap Touches(r), Clean(h)' PROVE Local(l, r, h)'
  <2>1. Clean(h) /\ Untouched(h)
    BY <1>4, <1>8 DEF Untouched
  <2>2. Due(l, r, h) => Held(h) /\ ~Replaced(l, r, h)
    BY <1>7, <2>1 DEF Due, Replaced, Before, CertPcs, BulkPcs
  <2>3. Snapped(r, h) /\ Rendered(l, r, h)
    BY DEF Snapped, Rendered
  <2>4. Local(l, r, h)
    BY <2>2, <2>3 DEF Local
  <2> QED
    BY <1>3, <2>4, LocalSame
<1>9. ASSUME NEW q \in Procs, NEW h \in Hosts \cap Touches(loc'[q]), Clean(h)'
      PROVE  Local(pc[q], loc[q], h)'
  <2>1. CASE q = p
    <3>1. Local(l, r, h)'
      BY <1>2, <1>8, <1>9, <2>1
    <3> QED
      BY <1>2, <2>1, <3>1, Zenon DEF Local, Snapped, Rendered, Due, Enabling, Replaced
  <2>2. CASE q # p
    <3>1. PICK k, s : k = pc[q] /\ s = loc[q]
      OBVIOUS
    <3>2. Local(k, s, h)
      BY <1>2, <1>4, <1>9, <2>2, <3>1 DEF Others, RInv, Kept
    <3>3. Local(k, s, h)'
      BY <1>3, <3>2, LocalSame
    <3>4. pc'[q] = k /\ loc'[q] = s
      BY <1>2, <2>2, <3>1 DEF Others
    <3> QED
      BY <3>3, <3>4, Zenon DEF Local, Snapped, Rendered, Due, Enabling, Replaced
  <2> QED
    BY <2>1, <2>2
<1>10. ASSUME NEW h \in Hosts, Clean(h)', Untouched(h)', Live(h)', Fine(row'[h])
       PROVE  Held(h)'
  <2>1. Clean(h) /\ Live(h) /\ Fine(row[h])
    BY <1>1, <1>4, <1>10 DEF Live
  <2>2. \A q \in Procs \ {p} : h \notin Touches(loc[q])
    BY <1>2, <1>10 DEF Untouched, Others
  <2>3. Held(h)
    BY <1>7, <2>1, <2>2 DEF Untouched
  <2> QED
    BY <1>1, <2>3 DEF Held
<1> QED
  BY <1>3, <1>5, <1>6, <1>9, <1>10 DEF RInv, Kept

\* Every request begins with what it was sent.
LEMMA RReceived == ASSUME IInv, RInv, NEW p \in Procs, Receive(p) PROVE RInv'
<1>1. ASSUME NEW r, r.kind \in AllKinds, r.rules \in Nat, DOMAIN r.snap = {},
             NEW l \in {"get", "patch", "list_clear", "list_get", "site_delete"}, Request(p, r, l),
             r.kind \in HostKinds => r.host \in Hosts /\ l \in {"get", "patch"},
             r.kind \notin HostKinds => l \notin {"get", "patch"},
             l \in {"list_clear", "list_get"} => r.kind \in {"list", "unlist"},
             r.cert => r.kind \in {"create", "update"},
             r.kind \in {"create", "update"} => r.set \in Settings, r.kind = "update" => l = "get",
             r.kind = "create" <=> l = "patch"
      PROVE  RInv'
  <2>1. KindOK(l, r)
    BY <1>1 DEF KindOK, HostPcs, ListPcs, BulkPcs, AllKinds, HostKinds
  <2> QED
    BY <1>1, <2>1, RBegins
<1>3. CASE Create(p)
  <2>1. PICK h \in Hosts, b \in Bodies : Request(p, Fresh("create", h, b.set, b.acl, b.cert), "patch")
    BY <1>3 DEF Create
  <2>2. PICK r : r = Fresh("create", h, b.set, b.acl, b.cert)
    OBVIOUS
  <2>3. r.kind = "create" /\ r.host = h /\ r.set \in Settings /\ r.rules = 0 /\ DOMAIN r.snap = {}
    BY <2>2, HostAssumption DEF Fresh, HostAssumption
  <2> QED
    BY <1>1, <2>1, <2>2, <2>3 DEF AllKinds, HostKinds
<1>4. CASE Update(p)
  <2>1. PICK h \in Hosts, b \in Bodies : Request(p, Fresh("update", h, b.set, b.acl, b.cert), "get")
    BY <1>4 DEF Update
  <2>2. PICK r : r = Fresh("update", h, b.set, b.acl, b.cert)
    OBVIOUS
  <2>3. r.kind = "update" /\ r.host = h /\ r.set \in Settings /\ r.rules = 0 /\ DOMAIN r.snap = {}
    BY <2>2, HostAssumption DEF Fresh, HostAssumption
  <2> QED
    BY <1>1, <2>1, <2>2, <2>3 DEF AllKinds, HostKinds
<1>5. ASSUME NEW k \in {"enable", "disable", "delete"}, Change(p, k) PROVE RInv'
  <2>1. PICK h \in Hosts : Request(p, Fresh(k, h, None, FALSE, FALSE), "get")
    BY <1>5 DEF Change
  <2>2. PICK r : r = Fresh(k, h, None, FALSE, FALSE)
    OBVIOUS
  <2>3. r.kind = k /\ r.host = h /\ ~r.cert /\ r.rules = 0 /\ DOMAIN r.snap = {}
    BY <2>2 DEF Fresh
  <2>4. Request(p, r, "get")
    BY <2>1, <2>2, Zenon
  <2> QED
    BY <1>1, <2>3, <2>4 DEF AllKinds, HostKinds
<1>6. CASE ListUpdate(p)
  <2>1. PICK n \in 1..MaxRules :
           Request(p, [Fresh("list", None, None, FALSE, FALSE) EXCEPT !.rules = n], "list_clear")
    BY <1>6 DEF ListUpdate
  <2>2. PICK r : r = [Fresh("list", None, None, FALSE, FALSE) EXCEPT !.rules = n]
    OBVIOUS
  <2>3. r.kind = "list" /\ ~r.cert /\ r.rules = n /\ DOMAIN r.snap = {} /\ n \in Nat
    BY <2>2, HostAssumption DEF Fresh, HostAssumption
  <2>4. Request(p, r, "list_clear")
    BY <2>1, <2>2, Zenon
  <2> QED
    BY <1>1, <2>3, <2>4 DEF AllKinds, HostKinds
<1>7. CASE ListDelete(p)
  <2>1. PICK r : r = Fresh("unlist", None, None, FALSE, FALSE)
    OBVIOUS
  <2>2. Request(p, r, "list_get")
    BY <1>7, <2>1 DEF ListDelete
  <2>3. r.kind = "unlist" /\ ~r.cert /\ r.rules = 0 /\ DOMAIN r.snap = {}
    BY <2>1 DEF Fresh
  <2> QED
    BY <1>1, <2>2, <2>3 DEF AllKinds, HostKinds
<1>8. CASE SettingUpdate(p)
  <2>1. PICK v : Request(p, Fresh("site", None, v, FALSE, FALSE), "site_delete")
    BY <1>8 DEF SettingUpdate
  <2>2. PICK r : r = Fresh("site", None, v, FALSE, FALSE)
    OBVIOUS
  <2>3. r.kind = "site" /\ ~r.cert /\ r.rules = 0 /\ DOMAIN r.snap = {}
    BY <2>2 DEF Fresh
  <2>4. Request(p, r, "site_delete")
    BY <2>1, <2>2, Zenon
  <2> QED
    BY <1>1, <2>3, <2>4 DEF AllKinds, HostKinds
<1> QED
  BY <1>3, <1>4, <1>5, <1>6, <1>7, <1>8 DEF Receive

\* A request goes on, with the same hosts.
LEMMA RStays ==
    ASSUME RInv, NEW p \in Procs, NEW l, NEW r, pc'[p] = l, loc'[p] = r, Others(p),
           RowsOK', KindOK(l, r), Worse, From(r, loc[p]),
           \A h \in Hosts \ Touches(loc[p]) : Same(h),
           \A h \in Hosts \cap Touches(loc[p]) :
              Clean(h) /\ Local(pc[p], loc[p], h) => Local(l, r, h)'
    PROVE  RInv'
<1>1. Touches(r) = Touches(loc[p])
  BY SameTouches DEF From
<1>2. ASSUME NEW h \in Hosts \cap Touches(r), Clean(h)' PROVE Local(l, r, h)'
  <2>1. Clean(h)
    BY <1>2 DEF Clean, Worse
  <2>2. Local(pc[p], loc[p], h)
    BY <1>1, <2>1 DEF RInv, Kept
  <2> QED
    BY <1>1, <2>1, <2>2
<1> QED
  BY <1>1, <1>2, RKept DEF Worse

\* The host's row is written.
LEMMA RPatched == ASSUME IInv, RInv, NEW p \in Procs, Patch(p) PROVE RInv'
<1>1. PICK k, h : k = loc[p] /\ h = loc[p].host
  OBVIOUS
<1>2. /\ DOMAIN k = LocFields /\ KindOK("patch", k) /\ ReadOK("patch", k, type) /\ RowsOK /\ pc[p] = "patch"
      /\ k.host = h
  BY <1>1 DEF IInv, ShapeOK, RInv, KindsOK, Patch
<1>3. UNCHANGED <<conf, bak, stash, rules>> /\ Worse
  BY DEF Patch, Keep, KeepFiles, files, Told, history, Worse
<1>4. k.kind \in HostKinds /\ h \in Hosts /\ h \in Touches(k) /\ (~k.cert => Touches(k) = {h})
  BY <1>2, TouchesKind DEF KindOK, HostPcs, HostKinds, AllKinds
<1>5. ASSUME NEW l \in {"cert_find", "fetch", "delete"}, NEW x, Goto(p, l), loc' = loc,
             row' = [row EXCEPT ![h] = x], DOMAIN x = RowFields, x.set \in Settings \/ x.alive # "live",
             KindOK(l, k), l = "delete" => ~k.cert, k.kind = "update" => l = "fetch",
             Clean(h) /\ Local("patch", k, h) => Local(l, k, h)'
      PROVE  RInv'
  <2>1. pc'[p] = l /\ loc'[p] = k /\ Others(p)
    BY <1>1, <1>5 DEF IInv, ShapeOK, Goto, Others
  <2>2. /\ row'[h] = x /\ DOMAIN row' = Hosts
        /\ \A g \in Hosts \ {h} : row'[g] = row[g] /\ Same(g)
    BY <1>2, <1>3, <1>4, <1>5 DEF RowsOK, Same
  <2>3. RowsOK'
    BY <1>2, <1>3, <1>5, <2>2 DEF RowsOK, Live
  <2>4. ASSUME NEW g \in Hosts \cap Touches(k), g # h, Clean(g), Local("patch", k, g)
        PROVE  Local(l, k, g)'
    <3>1. l \in {"cert_find", "fetch"}
      BY <1>4, <1>5, <2>4
    <3>2. Snapped(k, g) /\ Rendered(l, k, g) /\ ~Replaced(l, k, g) /\ ~Replaced("patch", k, g)
      BY <2>4, <3>1 DEF Local, Rendered, Replaced
    <3>3. Due(l, k, g) => Due("patch", k, g) /\ ~Enabling("patch", k, g)
      BY <1>2, <2>4 DEF Due, Enabling
    <3>4. Local(l, k, g)
      BY <1>2, <2>4, <3>1, <3>2, <3>3 DEF Local
    <3> QED
      BY <2>2, <2>4, <3>4, LocalSame
  <2>5. ASSUME NEW g \in Hosts \cap Touches(loc[p]), Clean(g), Local(pc[p], loc[p], g)
        PROVE  Local(l, k, g)'
    BY <1>1, <1>2, <1>5, <2>4, <2>5
  <2> QED
    BY <1>1, <1>3, <1>4, <1>5, <2>1, <2>2, <2>3, <2>5, RStays DEF From
<1>6. CASE k.kind = "create"
  <2>1. PICK x : x = [alive |-> "live", enabled |-> TRUE, set |-> k.set, acl |-> k.acl, meta |-> "unset"]
    OBVIOUS
  <2>2. PICK l : l = IF k.cert THEN "cert_find" ELSE "fetch"
    OBVIOUS
  <2>3. /\ row' = [row EXCEPT ![h] = x] /\ Goto(p, l) /\ loc' = loc
        /\ l \in {"cert_find", "fetch"}
    BY <1>1, <1>6, <2>1, <2>2 DEF Patch
  <2>4. DOMAIN x = RowFields /\ x.set = k.set /\ x.meta = "unset"
    BY <2>1 DEF RowFields
  <2>5. KindOK(l, k) /\ x.set \in Settings
    BY <1>2, <1>6, <2>3, <2>4 DEF KindOK, HostPcs, ListPcs, BulkPcs
  <2>6. row'[h] = x
    BY <1>2, <1>4, <2>3 DEF RowsOK
  <2>7. Local(l, k, h)'
    BY <1>2, <1>6, <2>3, <2>4, <2>6 DEF Local, Snapped, Rendered, Due, Fine, KindOK
  <2> QED
    BY <1>5, <1>6, <2>3, <2>4, <2>5, <2>7
<1>7. CASE k.kind = "update"
  <2>1. PICK x : x = Merged(h, k)
    OBVIOUS
  <2>2. /\ row' = [row EXCEPT ![h] = x] /\ Goto(p, "fetch") /\ loc' = loc
    BY <1>1, <1>7, <2>1 DEF Patch
  <2>3. DOMAIN k.old = RowFields /\ k.set \in Settings /\ DOMAIN row[h] = RowFields
    BY <1>2, <1>4, <1>7 DEF KindOK, RowsOK
  <2>4. /\ DOMAIN x = RowFields /\ x.set = k.set /\ x.alive = row[h].alive
        /\ \/ x.enabled = row[h].enabled /\ x.meta = row[h].meta
           \/ x.enabled = k.old.enabled /\ x.meta = k.old.meta
    BY <2>1, <2>3 DEF Merged, RowFields
  <2>5. KindOK("fetch", k)
    BY <1>2, <1>7 DEF KindOK, HostPcs, ListPcs, BulkPcs
  <2>6. row'[h] = x
    BY <1>2, <1>4, <2>2 DEF RowsOK
  <2>7. ASSUME Clean(h), Local("patch", k, h) PROVE Local("fetch", k, h)'
    <3>1. k.old.enabled = row[h].enabled /\ x.enabled = row[h].enabled
      BY <1>2, <1>7, <2>4, <2>7 DEF Local
    <3>2. Live(h)' <=> Live(h)
      BY <2>4, <2>6 DEF Live
    <3>3. Snapped(k, h)' /\ Rendered("fetch", k, h)'
      BY <2>6, <2>7, <3>1, <3>2 DEF Local, Snapped, Rendered
    <3>4. ASSUME Due("fetch", k, h)' PROVE Held(h)'
      <4>1. Live(h) /\ Fine(x)
        BY <2>6, <3>2, <3>4 DEF Due, Before, CertPcs, BulkPcs
      <4>2. Fine(row[h]) \/ Fine(k.old)
        BY <2>4, <3>1, <4>1 DEF Fine
      <4>3. Due("patch", k, h) /\ ~Enabling("patch", k, h) /\ ~Replaced("patch", k, h)
        BY <1>2, <1>7, <4>1, <4>2 DEF Due, Before, Enabling, Replaced
      <4>4. Held(h)
        BY <2>7, <4>3 DEF Local
      <4> QED
        BY <1>3, <4>4 DEF Held
    <3> QED
      BY <2>6, <3>1, <3>3, <3>4 DEF Local, Replaced
  <2> QED
    BY <1>5, <1>7, <2>2, <2>3, <2>4, <2>5, <2>7
<1>8. CASE k.kind = "enable"
  <2>1. PICK x : x = [row[h] EXCEPT !.enabled = TRUE]
    OBVIOUS
  <2>2. PICK f : f = k.snap[h]
    OBVIOUS
  <2>3. PICK s : s = [f EXCEPT !.row.enabled = TRUE]
    OBVIOUS
  <2>4. PICK r : r = [k EXCEPT !.snap = [k.snap EXCEPT ![h] = s]]
    OBVIOUS
  <2>5. /\ row' = [row EXCEPT ![h] = x] /\ pc' = [pc EXCEPT ![p] = "configure"]
        /\ loc' = [loc EXCEPT ![p] = r]
    BY <1>1, <1>8, <2>1, <2>2, <2>3, <2>4 DEF Patch, Goto
  <2>6. /\ DOMAIN k.snap = {h} /\ DOMAIN f = {"row", "rules"} /\ DOMAIN f.row = RowFields /\ ~k.cert
    BY <1>2, <1>8, <2>2 DEF KindOK, ReadOK
  <2>7. s.row.set = f.row.set /\ s.rules = f.rules /\ s.row.enabled
    BY <2>3, <2>6 DEF RowFields
  <2>8. /\ From(r, k) /\ r.snap = [k.snap EXCEPT ![h] = s] /\ r.old = k.old /\ r.rules = k.rules
    BY <1>2, <2>4 DEF LocFields, From
  <2>9. DOMAIN x = RowFields /\ x.set = row[h].set /\ x.alive = row[h].alive
    BY <1>2, <1>4, <2>1 DEF RowsOK, RowFields
  <2>10. KindOK("configure", r)
    BY <1>2, <1>8, <2>8 DEF KindOK, From, HostPcs, ListPcs, BulkPcs
  <2>11. ASSUME Clean(h), Local("patch", k, h) PROVE Local("configure", r, h)'
    <3>1. r.snap[h] = s /\ h \in DOMAIN k.snap
      BY <2>6, <2>8
    <3>2. Snapped(r, h)'
      BY <2>2, <2>7, <2>11, <3>1 DEF Local, Snapped
    <3> QED
      BY <1>2, <1>8, <2>8, <3>2 DEF Local, Rendered, Enabling, From
  <2>12. x.set \in Settings \/ x.alive # "live"
    BY <1>2, <1>4, <2>9 DEF RowsOK, Live
  <2>13. ASSUME NEW g \in Hosts \cap Touches(loc[p]), Clean(g), Local(pc[p], loc[p], g)
         PROVE  Local("configure", r, g)'
    BY <1>1, <1>2, <1>4, <2>6, <2>11, <2>13
  <2>14. pc'[p] = "configure" /\ loc'[p] = r /\ Others(p)
    BY <2>5 DEF IInv, ShapeOK, Others
  <2>15. /\ row'[h] = x /\ DOMAIN row' = Hosts /\ \A g \in Hosts \ {h} : row'[g] = row[g] /\ Same(g)
    BY <1>2, <1>3, <1>4, <2>5 DEF RowsOK, Same
  <2>16. RowsOK'
    BY <1>2, <1>3, <2>9, <2>12, <2>15 DEF RowsOK, Live
  <2> QED
    BY <1>1, <1>3, <1>4, <2>8, <2>10, <2>13, <2>14, <2>15, <2>16, RStays
<1>9. CASE k.kind \in {"disable", "delete"}
  <2>1. PICK x : x = IF k.kind = "disable" THEN [row[h] EXCEPT !.enabled = FALSE]
                     ELSE [row[h] EXCEPT !.alive = "gone"]
    OBVIOUS
  <2>2. /\ row' = [row EXCEPT ![h] = x] /\ Goto(p, "delete") /\ loc' = loc
    BY <1>1, <1>9, <2>1 DEF Patch
  <2>3. /\ DOMAIN x = RowFields /\ x.set = row[h].set /\ (x.alive = "live" => row[h].alive = "live")
        /\ ~(x.alive = "live" /\ x.enabled)
    BY <1>2, <1>4, <1>9, <2>1 DEF RowsOK, RowFields
  <2>4. ~k.cert /\ KindOK("delete", k)
    BY <1>2, <1>9 DEF KindOK, HostPcs, ListPcs, BulkPcs
  <2>5. row'[h] = x
    BY <1>2, <1>4, <2>2 DEF RowsOK
  <2>6. ASSUME Clean(h), Local("patch", k, h) PROVE Local("delete", k, h)'
    <3>1. ~(Live(h) /\ row[h].enabled)'
      BY <2>3, <2>5 DEF Live
    <3>2. Snapped(k, h)' /\ Rendered("delete", k, h)'
      BY <2>6, <3>1 DEF Local, Snapped, Rendered
    <3>3. ~Due("delete", k, h)'
      BY <1>9, <3>1 DEF Due, Fine
    <3> QED
      BY <1>9, <3>1, <3>2, <3>3 DEF Local
  <2>7. x.set \in Settings \/ x.alive # "live"
    BY <1>2, <1>4, <2>3 DEF RowsOK, Live
  <2> QED
    BY <1>5, <1>9, <2>2, <2>3, <2>4, <2>6, <2>7
<1> QED
  BY <1>4, <1>6, <1>7, <1>8, <1>9 DEF HostKinds

\* The access list is taken off its hosts, and confs are taken out of the live set.
LEMMA RTakenOut ==
    ASSUME IInv, RInv, NEW p \in Procs, ListDetach(p) \/ deleteConfig(p) \/ bulkStashConfigs(p)
    PROVE  RInv'
<1>1. PICK k : k = loc[p]
  OBVIOUS
<1>2. /\ KindOK(pc[p], k) /\ ReadOK(pc[p], k, type) /\ RowsOK
      /\ DOMAIN conf = Hosts /\ DOMAIN stash = Hosts
  BY <1>1 DEF IInv, ShapeOK, RInv, KindsOK
<1>3. Worse
  BY DEF ListDetach, deleteConfig, bulkStashConfigs, Told, history, Worse
<1>4. ASSUME NEW l, Goto(p, l), loc' = loc PROVE pc'[p] = l /\ loc'[p] = k /\ Others(p)
  BY <1>1, <1>4 DEF IInv, ShapeOK, Goto, Others
<1>5. CASE ListDetach(p)
  <2>1. /\ pc[p] = "list_detach" /\ row' = [h \in Hosts |-> [row[h] EXCEPT !.acl = FALSE]] /\ loc' = loc
        /\ UNCHANGED <<rules, conf, bak, stash>>
    BY <1>5 DEF ListDetach, KeepFiles, files
  <2>2. PICK l \in {"reload", "bulk"} : Goto(p, l)
    BY <1>5 DEF ListDetach
  <2>3. k.kind \in {"list", "unlist"} /\ Touches(k) = Hosts /\ KindOK(l, k)
    BY <1>2, <2>1, TouchesKind DEF KindOK, ListPcs, HostPcs, BulkPcs, AllKinds, HostKinds
  <2>4. ASSUME NEW h \in Hosts
        PROVE  /\ DOMAIN row'[h] = RowFields /\ row'[h].set = row[h].set /\ row'[h].meta = row[h].meta
               /\ row'[h].enabled = row[h].enabled /\ row'[h].alive = row[h].alive
    BY <1>2, <2>1 DEF RowsOK, RowFields
  <2>5. RowsOK'
    BY <1>2, <2>1, <2>4 DEF RowsOK, Live
  <2>6. ASSUME NEW h \in Hosts, Local("list_detach", k, h) PROVE Local(l, k, h)'
    <3>1. (Live(h)' <=> Live(h)) /\ (Held(h)' <=> Held(h)) /\ (Fine(row[h])' <=> Fine(row[h]))
      BY <2>1, <2>4 DEF Live, Held, Fine
    <3>2. Snapped(k, h)' /\ Rendered(l, k, h)'
      BY <2>2, <2>4, <2>6, <3>1 DEF Local, Snapped, Rendered
    <3>3. Due(l, k, h)' => Held(h)' /\ ~Replaced(l, k, h)
      BY <2>2, <2>3, <2>6, <3>1 DEF Local, Due, Enabling, Replaced
    <3> QED
      BY <2>2, <2>3, <3>2, <3>3 DEF Local, Replaced
  <2> QED
    BY <1>1, <1>3, <1>4, <2>1, <2>2, <2>3, <2>5, <2>6, RStays DEF From
<1>6. CASE deleteConfig(p)
  <2>1. /\ pc[p] = "delete" /\ conf' = [conf EXCEPT ![loc[p].host] = None] /\ loc' = loc /\ Goto(p, "reload")
        /\ UNCHANGED <<row, rules, bak, stash>>
    BY <1>6 DEF deleteConfig, KeepDb, db
  <2>2. k.kind \in {"disable", "delete"} /\ Touches(k) = {k.host} /\ KindOK("reload", k)
    BY <1>2, <2>1, TouchesKind DEF KindOK, ListPcs, HostPcs, BulkPcs, AllKinds, HostKinds
  <2>3. RowsOK' /\ \A h \in Hosts \ {k.host} : Same(h)
    BY <1>1, <1>2, <2>1 DEF RowsOK, Live, Same
  <2>4. ASSUME NEW h \in Hosts, Local("delete", k, h) PROVE Local("reload", k, h)'
    <3>1. Snapped(k, h)' /\ Rendered("reload", k, h)' /\ ~Due("reload", k, h)'
      BY <2>1, <2>2, <2>4 DEF Local, Snapped, Rendered, Due, Fine, Live
    <3> QED
      BY <2>2, <3>1 DEF Local
  <2> QED
    BY <1>1, <1>3, <1>4, <2>1, <2>2, <2>3, <2>4, RStays DEF From
<1>7. CASE bulkStashConfigs(p)
  <2>0. PICK B : B = {h \in Batch(p) : conf[h] # None}
    OBVIOUS
  <2>1. /\ pc[p] = "cert_stash" /\ loc' = loc /\ Goto(p, "cert_request") /\ UNCHANGED <<row, rules, bak>>
        /\ stash' = [h \in Hosts |-> IF h \in B THEN conf[h] ELSE stash[h]]
        /\ conf' = [h \in Hosts |-> IF h \in B THEN None ELSE conf[h]]
    BY <1>7, <2>0 DEF bulkStashConfigs, KeepDb, db
  <2>2. k.cert /\ k.kind \in {"create", "update"} /\ Touches(k) = Hosts /\ KindOK("cert_request", k)
    BY <1>2, <2>1, TouchesKind DEF ReadOK, CertPcs, KindOK, ListPcs, HostPcs, BulkPcs, AllKinds
  <2>3. RowsOK'
    BY <1>2, <2>1 DEF RowsOK, Live
  <2>4. ASSUME NEW h \in Hosts, Local("cert_stash", k, h) PROVE Local("cert_request", k, h)'
    <3>1. (Live(h)' <=> Live(h)) /\ (Held(h) => Held(h)')
      BY <2>0, <2>1 DEF Live, Held, Working, Serving
    <3>2. Snapped(k, h)' /\ Rendered("cert_request", k, h)'
      BY <2>1, <2>4, <3>1 DEF Local, Snapped, Rendered
    <3>3. Due("cert_request", k, h)' => Held(h)'
      BY <2>1, <2>2, <2>4, <3>1 DEF Local, Due, Enabling, Replaced, Before, CertPcs
    <3> QED
      BY <2>1, <2>2, <2>4, <3>2, <3>3 DEF Local, Replaced
  <2> QED
    BY <1>1, <1>3, <1>4, <2>1, <2>2, <2>3, <2>4, RStays DEF From
<1> QED
  BY <1>5, <1>6, <1>7

ConfigurePcs == {"configure", "backup", "clear", "generate", "verify", "activate"}

\* What configure does leaves the other hosts of its request alone.
LEMMA RAside ==
    ASSUME NEW l \in ConfigurePcs, NEW m \in ConfigurePcs, NEW k, NEW r, NEW g, Local(l, k, g), Same(g),
           From(r, k), r.snap = k.snap, r.old = k.old, g # k.host
    PROVE  Local(m, r, g)'
<1>1. r.kind = k.kind /\ r.host = k.host
  BY DEF From
<1>2. Snapped(r, g) /\ Rendered(m, r, g)
  BY <1>1 DEF ConfigurePcs, Local, Snapped, Rendered
<1>3. Due(m, r, g) => Held(g) /\ ~Replaced(m, r, g)
  BY <1>1 DEF ConfigurePcs, Local, Due, Enabling, Replaced
<1>4. Local(m, r, g)
  BY <1>1, <1>2, <1>3 DEF ConfigurePcs, Local
<1> QED
  BY <1>4, LocalSame

\* A step of configure keeps the invariant if it keeps it for the host it configures.
LEMMA RConfigures ==
    ASSUME IInv, RInv, NEW p \in Procs, NEW k, NEW h, k = loc[p], h = k.host, pc[p] \in ConfigurePcs,
           NEW m \in ConfigurePcs, NEW r, pc'[p] = m, loc'[p] = r, Others(p), KindOK(m, r), Worse, RowsOK',
           From(r, k), r.snap = k.snap, r.old = k.old,
           \A g \in Hosts \ {h} : Same(g),
           Clean(h) /\ Local(pc[p], k, h) => Local(m, r, h)'
    PROVE  RInv'
<1>1. KindOK(pc[p], k)
  BY DEF RInv, KindsOK
<1>2. h \in Hosts \cap Touches(k)
  BY <1>1, TouchesKind DEF KindOK, ConfigurePcs, HostPcs, HostKinds, AllKinds
<1>3. ASSUME NEW g \in Hosts \cap Touches(loc[p]), Clean(g), Local(pc[p], loc[p], g)
      PROVE  Local(m, r, g)'
  <2>1. CASE g = h
    BY <1>3, <2>1
  <2>2. CASE g # h
    BY <1>3, <2>2, RAside
  <2> QED
    BY <2>1, <2>2
<1> QED
  BY <1>2, <1>3, RStays

\* configure: from the backup to the verdict, the conf that worked is in the .bak.
LEMMA RConfigured ==
    ASSUME IInv, RInv, NEW p \in Procs,
           \/ ConfigureTest(p) \/ ConfigureBackup(p) \/ ConfigureDelete(p)
           \/ ConfigureGenerate(p) \/ ConfigureVerify(p) \/ ConfigureReload(p)
    PROVE  RInv'
<1>1. PICK k, h : k = loc[p] /\ h = k.host
  OBVIOUS
<1>2. /\ KindOK(pc[p], k) /\ ReadOK(pc[p], k, type) /\ RowsOK /\ DOMAIN k = LocFields
      /\ DOMAIN conf = Hosts /\ DOMAIN stash = Hosts /\ DOMAIN bak = Hosts
  BY <1>1 DEF IInv, ShapeOK, RInv, KindsOK
<1>3. pc[p] \in ConfigurePcs
  BY DEF ConfigurePcs, ConfigureTest, ConfigureBackup, ConfigureDelete, ConfigureGenerate, ConfigureVerify,
         ConfigureReload
<1>4. h \in Hosts /\ k.kind \in HostKinds
  BY <1>1, <1>2, <1>3 DEF KindOK, ConfigurePcs, HostPcs
<1>5. ASSUME NEW l, Goto(p, l), loc' = loc PROVE pc'[p] = l /\ loc'[p] = k /\ Others(p)
  BY <1>1, <1>5 DEF IInv, ShapeOK, Goto, Others
<1>6. ASSUME NEW m \in ConfigurePcs, m \notin {"clear", "generate", "verify"} \/ k.had \subseteq {h}
      PROVE  KindOK(m, k)
  BY <1>1, <1>2, <1>3, <1>4, <1>6 DEF KindOK, ConfigurePcs, HostPcs, ListPcs, BulkPcs
<1>7. CASE ConfigureTest(p)
  <2>1. pc[p] = "configure" /\ UNCHANGED <<row, rules, conf, bak, stash>> /\ Worse /\ rules' \in Nat
    BY <1>2, <1>7 DEF ConfigureTest, KeepDb, db, files, Told, Refuse, history, Worse, RowsOK
  <2>2. CASE test(conf, site)
    <3>1. Goto(p, "backup") /\ loc' = loc
      BY <1>7, <2>2 DEF ConfigureTest
    <3>2. KindOK("backup", k)
      BY <1>6 DEF ConfigurePcs
    <3> QED
      BY <1>1, <2>1, <3>1, <3>2, RGoes DEF Before, CertPcs, BulkPcs
  <2>3. CASE ~test(conf, site)
    <3>1. Done(p) /\ Refuse(p)
      BY <1>7, <2>3 DEF ConfigureTest
    <3>2. RowsOK' /\ \A g \in Hosts : Same(g)
      BY <1>2, <2>1 DEF RowsOK, Live, Same
    <3> QED
      BY <3>1, <3>2, RRefuses
  <2> QED
    BY <2>2, <2>3
<1>8. CASE ConfigureBackup(p)
  <2>1. PICK r : r = [k EXCEPT !.had = Had({h})]
    OBVIOUS
  <2>2. /\ pc[p] = "backup" /\ backupConfig({h}) /\ loc' = [loc EXCEPT ![p] = r]
        /\ pc' = [pc EXCEPT ![p] = "clear"] /\ UNCHANGED <<conf, row, rules>> /\ Worse
    BY <1>1, <1>8, <2>1 DEF ConfigureBackup, Set, Goto, Told, history, Worse, KeepDb, db
  <2>3. /\ From(r, k) /\ r.snap = k.snap /\ r.old = k.old /\ r.had = Had({h}) /\ r.rules = k.rules
        /\ r.had \subseteq {h}
    BY <1>2, <2>1 DEF LocFields, From, Had
  <2>4. KindOK("clear", r)
    BY <1>1, <1>2, <1>4, <2>2, <2>3 DEF KindOK, From, HostPcs, ListPcs, BulkPcs
  <2>5. pc'[p] = "clear" /\ loc'[p] = r /\ Others(p)
    BY <2>2 DEF IInv, ShapeOK, Others
  <2>6. RowsOK'
    BY <1>2, <2>2 DEF RowsOK, Live
  <2>7. \A g \in Hosts \ {h} : Same(g)
    BY <2>2 DEF Same, backupConfig, Had
  <2>8. ASSUME Local("backup", k, h) PROVE Local("clear", r, h)'
    <3>1. r.kind = k.kind /\ r.host = h
      BY <1>1, <2>3 DEF From
    <3>2. Snapped(r, h)' /\ Rendered("clear", r, h)'
      BY <2>2, <2>3, <2>8, <3>1 DEF Local, Snapped, Rendered, Live
    <3>3. Due("clear", r, h)' => Due("backup", k, h)
      BY <1>1, <2>2, <2>3, <3>1 DEF Due, Live, Before, CertPcs, BulkPcs
    <3>4. Held(h) => h \in r.had /\ Working(bak'[h])
      BY <1>4, <2>2, <2>3 DEF Held, Working, Serving, Had, backupConfig
    <3>5. Due("backup", k, h) => Enabling("clear", r, h) \/ Held(h)
      BY <1>1, <2>8, <3>1 DEF Local, Enabling, Replaced
    <3>6. r.kind = "update" => r.old.enabled = row'[h].enabled
      BY <1>1, <2>2, <2>3, <2>8, <3>1 DEF Local
    <3> QED
      BY <3>1, <3>2, <3>3, <3>4, <3>5, <3>6 DEF Local, Replaced, Working, Enabling
  <2> QED
    BY <1>1, <1>3, <2>2, <2>3, <2>4, <2>5, <2>6, <2>7, <2>8, RConfigures DEF ConfigurePcs
<1>9. CASE ConfigureDelete(p)
  <2>1. /\ pc[p] = "clear" /\ conf' = [conf EXCEPT ![h] = None] /\ stash' = [stash EXCEPT ![h] = None]
        /\ Goto(p, "generate") /\ loc' = loc /\ UNCHANGED <<bak, row, rules>> /\ Worse
    BY <1>1, <1>9 DEF ConfigureDelete, Told, history, Worse, KeepDb, db
  <2>2. KindOK("generate", k)
    BY <1>1, <1>2, <1>6, <2>1 DEF ConfigurePcs, KindOK
  <2>3. RowsOK' /\ \A g \in Hosts \ {h} : Same(g)
    BY <1>2, <2>1 DEF RowsOK, Live, Same
  <2>4. ASSUME Local("clear", k, h) PROVE Local("generate", k, h)'
    <3>1. Snapped(k, h)' /\ Rendered("generate", k, h)'
      BY <2>1, <2>4 DEF Local, Snapped, Rendered, Live
    <3>2. Due("generate", k, h)' => Due("clear", k, h)
      BY <2>1 DEF Due, Live, Before, CertPcs, BulkPcs
    <3>3. Due("clear", k, h) => Enabling("generate", k, h) \/ (h \in k.had /\ Working(bak[h]))
      BY <1>1, <2>4 DEF Local, Enabling, Replaced
    <3>4. k.kind = "update" => k.old.enabled = row'[h].enabled
      BY <1>1, <2>1, <2>4 DEF Local
    <3> QED
      BY <1>1, <2>1, <3>1, <3>2, <3>3, <3>4 DEF Local, Replaced, Enabling, Working
  <2> QED
    BY <1>1, <1>3, <1>5, <2>1, <2>2, <2>3, <2>4, RConfigures DEF ConfigurePcs, From
<1>10. CASE ConfigureGenerate(p)
  <2>1. /\ pc[p] = "generate" /\ conf' = [conf EXCEPT ![h] = generateConfig(k.snap[h])]
        /\ Goto(p, "verify") /\ loc' = loc /\ UNCHANGED <<bak, stash, row, rules>> /\ Worse
    BY <1>1, <1>10 DEF ConfigureGenerate, Told, history, Worse, KeepDb, db
  <2>2. KindOK("verify", k)
    BY <1>1, <1>2, <1>6, <2>1 DEF ConfigurePcs, KindOK
  <2>3. RowsOK' /\ \A g \in Hosts \ {h} : Same(g)
    BY <1>2, <2>1 DEF RowsOK, Live, Same
  <2>4. ASSUME Local("generate", k, h) PROVE Local("verify", k, h)'
    <3>0. conf'[h] = generateConfig(k.snap[h])
      BY <1>2, <1>4, <2>1
    <3>1. Snapped(k, h)' /\ Rendered("verify", k, h)'
      BY <2>1, <2>4, <3>0 DEF Local, Snapped, Rendered, Live
    <3>2. Due("verify", k, h)' => Due("generate", k, h)
      BY <2>1 DEF Due, Live, Before, CertPcs, BulkPcs
    <3>3. Due("generate", k, h) => Enabling("verify", k, h) \/ (h \in k.had /\ Working(bak[h]))
      BY <1>1, <2>4 DEF Local, Enabling, Replaced
    <3>4. k.kind = "update" => k.old.enabled = row'[h].enabled
      BY <1>1, <2>1, <2>4 DEF Local
    <3> QED
      BY <1>1, <2>1, <3>1, <3>2, <3>3, <3>4 DEF Local, Replaced, Enabling, Working
  <2> QED
    BY <1>1, <1>3, <1>5, <2>1, <2>2, <2>3, <2>4, RConfigures DEF ConfigurePcs, From
<1>11. CASE ConfigureVerify(p)
  <2>1. /\ pc[p] = "verify" /\ Goto(p, "activate") /\ loc' = loc /\ UNCHANGED <<stash, rules>> /\ Worse
    BY <1>11 DEF ConfigureVerify, Told, history, Worse
  <2>2. PICK v : /\ row' = [row EXCEPT ![h].meta = v]
                 /\ \/ v = "ok" /\ test(conf, site) /\ conf' = conf /\ dropConfigBackup({h})
                    \/ /\ v \in {"kept", "off"} /\ conf' = restoreConfigBackup(h, h \in k.had)
                       /\ dropConfigBackup(k.had)
    <3>1. CASE test(conf, site)
      BY <1>1, <1>11, <3>1 DEF ConfigureVerify
    <3>2. CASE ~test(conf, site)
      BY <1>1, <1>11, <3>2 DEF ConfigureVerify, Outcome
    <3> QED
      BY <3>1, <3>2
  <2>3. KindOK("activate", k)
    BY <1>6 DEF ConfigurePcs
  <2>4. /\ DOMAIN row' = Hosts /\ \A g \in Hosts \ {h} : row'[g] = row[g]
        /\ row'[h].alive = row[h].alive /\ row'[h].enabled = row[h].enabled /\ row'[h].set = row[h].set
        /\ row'[h].meta = v /\ DOMAIN row'[h] = RowFields
    BY <1>2, <1>4, <2>2 DEF RowsOK, RowFields
  <2>5. RowsOK'
    BY <1>2, <2>1, <2>4 DEF RowsOK, Live
  <2>6. k.had \subseteq {h}
    BY <1>1, <1>2, <2>1 DEF KindOK
  <2>7. \A g \in Hosts \ {h} : Same(g)
    BY <1>2, <2>1, <2>2, <2>4, <2>6 DEF Same, dropConfigBackup, restoreConfigBackup
  <2>8. ASSUME Local("verify", k, h) PROVE Local("activate", k, h)'
    <3>1. (Live(h)' <=> Live(h)) /\ h \in DOMAIN k.snap
      BY <1>1, <1>2, <2>1, <2>4 DEF Live, ReadOK
    <3>2. Snapped(k, h)' /\ Rendered("activate", k, h)'
      BY <2>4, <2>8, <3>1 DEF Local, Snapped, Rendered
    <3>3. ASSUME Due("activate", k, h)' PROVE Held(h)'
      <4>1. Live(h) /\ row[h].enabled /\ v = "ok"
        BY <2>4, <3>1, <3>3 DEF Due, Fine, Before, CertPcs, BulkPcs
      <4>2. test(conf, site) /\ conf' = conf
        BY <2>2, <4>1
      <4>3. conf[h] = generateConfig(k.snap[h])
        BY <1>1, <2>8 DEF Local, Rendered
      <4>4. Serving(conf[h])
        BY <2>8, <3>1, <4>1, <4>3, Renders DEF Local, Snapped
      <4>5. Accepted(conf[h])
        BY <1>4, <4>2 DEF test
      <4> QED
        BY <4>2, <4>4, <4>5 DEF Held, Working
    <3>4. k.kind = "update" => k.old.enabled = row'[h].enabled
      BY <1>1, <2>4, <2>8 DEF Local
    <3> QED
      BY <3>2, <3>3, <3>4 DEF Local, Replaced
  <2> QED
    BY <1>1, <1>3, <1>5, <2>1, <2>3, <2>5, <2>7, <2>8, RConfigures DEF ConfigurePcs, From
<1>12. CASE ConfigureReload(p)
  <2>1. pc[p] = "activate" /\ Done(p) /\ UNCHANGED <<row, conf, bak, stash>> /\ rules' \in Nat /\ Worse
    BY <1>2, <1>12 DEF ConfigureReload, KeepDb, db, files, Told, history, Worse, RowsOK
  <2> QED
    BY <2>1, REnds DEF Busy
<1> QED
  BY <1>7, <1>8, <1>9, <1>10, <1>11, <1>12

\* Rendering fails: the host goes on the list of failures, the others are left alone.
LEMMA RRenderFailed ==
    ASSUME IInv, RInv, NEW p \in Procs, ConfigureRenderFails(p)
    PROVE  RInv'
<1>1. PICK k, h : k = loc[p] /\ h = k.host
  OBVIOUS
<1>2. /\ pc[p] = "generate" /\ Done(p) /\ Refuse(p) /\ UNCHANGED <<row, rules, stash>>
      /\ conf' = restoreConfigBackup(h, h \in k.had) /\ dropConfigBackup(k.had)
  BY <1>1 DEF ConfigureRenderFails, KeepDb, db
<1>3. /\ KindOK(pc[p], k) /\ RowsOK /\ DOMAIN conf = Hosts
  BY <1>1 DEF IInv, ShapeOK, RInv, KindsOK
<1>4. k.had \subseteq {h} /\ h \in Touches(k)
  BY <1>1, <1>2, <1>3, TouchesKind DEF KindOK, HostPcs, HostKinds, AllKinds
<1>5. \A g \in Hosts \ {h} : Same(g)
  BY <1>2, <1>3, <1>4 DEF Same, dropConfigBackup, restoreConfigBackup
<1>6. RowsOK'
  BY <1>2, <1>3 DEF RowsOK, Live
<1> QED
  BY <1>1, <1>2, <1>4, <1>5, <1>6, RRefuses

\* What clearHostErrors and markHostsRejected write of a row: its verdict only.
LEMMA MarksRows ==
    ASSUME NEW p, NEW ok, NEW bad, RowsOK, row' = Marked(p, ok, bad), rules' = rules
    PROVE  /\ RowsOK'
           /\ \A h \in Hosts :
                 /\ row'[h].alive = row[h].alive /\ row'[h].enabled = row[h].enabled
                 /\ h \notin ok \cup bad => row'[h] = row[h]
                 /\ h \in bad => row'[h].meta # "ok"
<1>1. DOMAIN row' = Hosts /\ rules' \in Nat
  BY DEF Marked, RowsOK
<1>2. ASSUME NEW h \in Hosts
      PROVE  /\ row'[h].alive = row[h].alive /\ row'[h].enabled = row[h].enabled
             /\ row'[h].set = row[h].set /\ DOMAIN row'[h] = RowFields
             /\ h \notin ok \cup bad => row'[h] = row[h]
             /\ h \in bad => row'[h].meta # "ok"
  <2>1. DOMAIN row[h] = RowFields
    BY DEF RowsOK
  <2>2. CASE h \in bad
    <3>1. PICK v \in {"kept", "off"} : row'[h] = [row[h] EXCEPT !.meta = v]
      BY <2>2 DEF Marked, Outcome
    <3> QED
      BY <2>1, <2>2, <3>1 DEF RowFields
  <2>3. CASE h \notin bad
    <3>1. row'[h] = row[h] \/ (h \in ok /\ row'[h] = [row[h] EXCEPT !.meta = "ok"])
      BY <2>3 DEF Marked
    <3> QED
      BY <2>1, <2>3, <3>1 DEF RowFields
  <2> QED
    BY <2>2, <2>3
<1> QED
  BY <1>1, <1>2 DEF RowsOK, Live

\* A batch that is over: the hosts whose rows say so are held.
LEMMA RBatchEnds ==
    ASSUME IInv, RInv, NEW p \in Procs, NEW k, k = loc[p], pc[p] \in {"bulk_test", "bulk_end"}, Worse, RowsOK',
           \/ k.cert /\ Goto(p, "cert_done") /\ loc' = loc
           \/ Goto(p, "reload") /\ loc' = loc
           \/ Done(p),
           \A h \in Hosts : row'[h].alive = row[h].alive /\ row'[h].enabled = row[h].enabled,
           \A h \in Hosts : /\ Clean(h) /\ Local(pc[p], k, h) /\ Live(h)
                            /\ Fine(row'[h]) \/ (k.kind = "update" /\ h = k.host /\ Fine(k.old))
                            => Held(h)'
    PROVE  RInv'
<1>1. KindOK(pc[p], k)
  BY DEF RInv, KindsOK
<1>2. Touches(k) = Hosts
  BY <1>1, TouchesKind DEF KindOK, BulkPcs, AllKinds
<1>3. \A h \in Hosts : Live(h)' <=> Live(h)
  BY DEF Live
<1>4. CASE Done(p)
  <2>1. pc'[p] = "idle" /\ loc'[p] = Idle /\ Others(p)
    BY <1>4 DEF IInv, ShapeOK, Done, Goto, Others
  <2>2. ASSUME NEW h \in Hosts, Clean(h)', Live(h)', Fine(row'[h]) PROVE Held(h)'
    <3>1. Clean(h)
      BY <2>2 DEF Clean, Worse
    <3>2. Local(pc[p], k, h)
      BY <1>2, <3>1 DEF RInv, Kept
    <3> QED
      BY <1>3, <2>2, <3>1, <3>2
  <2> QED
    BY <1>2, <2>1, <2>2, IdleTouches, RKept DEF Worse
<1>5. ASSUME NEW l \in {"cert_done", "reload"}, Goto(p, l), loc' = loc PROVE RInv'
  <2>1. pc'[p] = l /\ loc'[p] = k /\ Others(p)
    BY <1>5 DEF IInv, ShapeOK, Goto, Others
  <2>2. KindOK(l, k)
    BY <1>1, <1>5 DEF KindOK, HostPcs, ListPcs, BulkPcs
  <2>3. ASSUME NEW h \in Hosts, Clean(h), Local(pc[p], k, h) PROVE Local(l, k, h)'
    <3>1. Snapped(k, h)' /\ Rendered(l, k, h)'
      BY <1>3, <2>3 DEF Local, Snapped, Rendered
    <3>2. Due(l, k, h)' => Held(h)'
      BY <1>3, <2>3 DEF Due
    <3>3. k.kind = "update" /\ h = k.host => k.old.enabled = row'[h].enabled
      BY <2>3 DEF Local
    <3> QED
      BY <3>1, <3>2, <3>3 DEF Local, Replaced
  <2> QED
    BY <1>2, <1>5, <2>1, <2>2, <2>3, RStays DEF From
<1> QED
  BY <1>4, <1>5

\* The batch is backed up, rendered and tested.
LEMMA RBatched ==
    ASSUME IInv, RInv, NEW p \in Procs, BulkBackup(p) \/ BulkGenerate(p) \/ BulkTest(p)
    PROVE  RInv'
<1>1. PICK k, B : k = loc[p] /\ B = DOMAIN k.snap
  OBVIOUS
<1>2. /\ KindOK(pc[p], k) /\ RowsOK /\ DOMAIN k = LocFields
      /\ DOMAIN conf = Hosts /\ DOMAIN stash = Hosts /\ DOMAIN bak = Hosts
  BY <1>1 DEF IInv, ShapeOK, RInv, KindsOK
<1>3. pc[p] \in {"bulk", "bulk_generate", "bulk_test"}
  BY DEF BulkBackup, BulkGenerate, BulkTest
<1>4. Touches(k) = Hosts /\ k.kind \in {"create", "update", "list", "unlist"}
  BY <1>2, <1>3, TouchesKind DEF KindOK, BulkPcs, AllKinds
<1>5. ASSUME NEW l, Goto(p, l), loc' = loc PROVE pc'[p] = l /\ loc'[p] = k /\ Others(p)
  BY <1>1, <1>5 DEF IInv, ShapeOK, Goto, Others
<1>6. CASE BulkBackup(p)
  <2>1. PICK r : r = [k EXCEPT !.had = Had(B)]
    OBVIOUS
  <2>2. /\ pc[p] = "bulk" /\ backupConfig(B) /\ loc' = [loc EXCEPT ![p] = r]
        /\ pc' = [pc EXCEPT ![p] = "bulk_generate"] /\ UNCHANGED <<conf, row, rules>> /\ Worse
    BY <1>1, <1>6, <2>1 DEF BulkBackup, Batch, Set, Goto, Told, history, Worse, KeepDb, db
  <2>3. From(r, k) /\ r.snap = k.snap /\ r.old = k.old /\ r.had = Had(B) /\ r.rules = k.rules
    BY <1>2, <2>1 DEF LocFields, From
  <2>4. KindOK("bulk_generate", r) /\ RowsOK'
    BY <1>2, <2>2, <2>3 DEF KindOK, From, HostPcs, ListPcs, BulkPcs, RowsOK, Live
  <2>5. pc'[p] = "bulk_generate" /\ loc'[p] = r /\ Others(p)
    BY <2>2 DEF IInv, ShapeOK, Others
  <2>6. ASSUME NEW h \in Hosts, Local("bulk", k, h) PROVE Local("bulk_generate", r, h)'
    <3>1. r.kind = k.kind /\ r.host = k.host /\ DOMAIN r.snap = B
      BY <1>1, <2>3 DEF From
    <3>2. Snapped(r, h)' /\ Rendered("bulk_generate", r, h)'
      BY <2>2, <2>3, <2>6 DEF Local, Snapped, Rendered, Live
    <3>3. Due("bulk_generate", r, h)' => Held(h)
      BY <1>4, <2>2, <2>3, <2>6, <3>1 DEF Local, Due, Live, Before, BulkPcs, Enabling, Replaced
    <3>4. CASE h \in B
      <4>1. Held(h) => h \in r.had /\ Working(bak'[h])
        BY <2>2, <2>3, <3>4 DEF Held, Working, Serving, Had, backupConfig
      <4> QED
        BY <2>2, <2>3, <2>6, <3>1, <3>2, <3>3, <3>4, <4>1 DEF Local, Replaced, Working
    <3>5. CASE h \notin B
      <4>1. Held(h) => Held(h)'
        BY <2>2, <3>5 DEF Held, Had, backupConfig
      <4> QED
        BY <2>2, <2>3, <2>6, <3>1, <3>2, <3>3, <3>5, <4>1 DEF Local, Replaced
    <3> QED
      BY <3>4, <3>5
  <2> QED
    BY <1>1, <1>4, <2>2, <2>3, <2>4, <2>5, <2>6, RStays
<1>7. CASE BulkGenerate(p)
  <2>1. /\ pc[p] = "bulk_generate" /\ Goto(p, "bulk_test") /\ loc' = loc
        /\ conf' = [h \in Hosts |-> IF h \in B THEN generateConfig(k.snap[h]) ELSE conf[h]]
        /\ UNCHANGED <<bak, stash, row, rules>> /\ Worse
    BY <1>1, <1>7 DEF BulkGenerate, Batch, Told, history, Worse, KeepDb, db
  <2>2. KindOK("bulk_test", k) /\ RowsOK'
    BY <1>2, <2>1 DEF KindOK, HostPcs, ListPcs, BulkPcs, RowsOK, Live
  <2>3. ASSUME NEW h \in Hosts, Local("bulk_generate", k, h) PROVE Local("bulk_test", k, h)'
    <3>1. Snapped(k, h)' /\ Rendered("bulk_test", k, h)'
      BY <1>1, <2>1, <2>3 DEF Local, Snapped, Rendered, Live
    <3>2. Due("bulk_test", k, h)' => Due("bulk_generate", k, h) /\ ~Enabling("bulk_generate", k, h)
      BY <1>4, <2>1 DEF Due, Live, Before, BulkPcs, Enabling
    <3>3. h \notin B => (Held(h)' <=> Held(h))
      BY <2>1 DEF Held
    <3> QED
      BY <1>1, <2>1, <2>3, <3>1, <3>2, <3>3 DEF Local, Replaced, Working
  <2> QED
    BY <1>1, <1>4, <1>5, <2>1, <2>2, <2>3, RStays DEF From
<1>8. CASE BulkTest(p)
  <2>1. pc[p] = "bulk_test" /\ UNCHANGED <<stash, rules>>
    BY <1>8 DEF BulkTest
  <2>2. CASE test(conf, site)
    <3>1. /\ row' = Marked(p, B, {}) /\ AfterBulk(p, TRUE) /\ conf' = conf /\ Worse
      BY <1>1, <1>8, <2>2 DEF BulkTest, Batch, Told, history, Worse
    <3>2. /\ RowsOK'
          /\ \A h \in Hosts : /\ row'[h].alive = row[h].alive /\ row'[h].enabled = row[h].enabled
                              /\ h \notin B => row'[h] = row[h]
      BY <1>2, <2>1, <3>1, MarksRows
    <3>3. ASSUME NEW h \in Hosts, Clean(h), Local("bulk_test", k, h), Live(h),
                 Fine(row'[h]) \/ (k.kind = "update" /\ h = k.host /\ Fine(k.old))
          PROVE  Held(h)'
      <4>1. row[h].enabled
        BY <3>2, <3>3 DEF Fine, Local
      <4>2. CASE h \in B
        <5>1. conf[h] = generateConfig(k.snap[h]) /\ Serving(generateConfig(k.snap[h]))
          BY <1>1, <3>3, <4>1, <4>2, Renders DEF Local, Rendered, Snapped
        <5>2. Accepted(conf[h])
          BY <2>2 DEF test
        <5> QED
          BY <3>1, <5>1, <5>2 DEF Held, Working
      <4>3. CASE h \notin B
        <5>1. Due("bulk_test", k, h) /\ ~Enabling("bulk_test", k, h) /\ ~Replaced("bulk_test", k, h)
          BY <1>1, <1>4, <3>2, <3>3, <4>3 DEF Due, Before, BulkPcs, Enabling, Replaced
        <5>2. Held(h)
          BY <3>3, <5>1 DEF Local
        <5> QED
          BY <2>1, <3>1, <5>2 DEF Held
      <4> QED
        BY <4>2, <4>3
    <3> QED
      BY <1>1, <2>1, <3>1, <3>2, <3>3, RBatchEnds DEF AfterBulk
  <2>3. CASE ~test(conf, site) /\ test(putBack(p, B), site)
    <3>1. PICK r : r = [k EXCEPT !.left = B]
      OBVIOUS
    <3>2. /\ conf' = putBack(p, B) /\ UNCHANGED <<bak, row>> /\ Worse
          /\ loc' = [loc EXCEPT ![p] = r] /\ pc' = [pc EXCEPT ![p] = "bulk_each"]
      BY <1>1, <1>8, <2>3, <3>1 DEF BulkTest, Batch, Set, Goto, Told, history, Worse
    <3>3. /\ From(r, k) /\ r.snap = k.snap /\ r.old = k.old /\ r.had = k.had /\ r.rules = k.rules
          /\ r.left = B
      BY <1>2, <3>1 DEF LocFields, From
    <3>4. KindOK("bulk_each", r) /\ RowsOK'
      BY <1>1, <1>2, <2>1, <3>2, <3>3 DEF KindOK, From, HostPcs, ListPcs, BulkPcs, RowsOK, Live
    <3>5. pc'[p] = "bulk_each" /\ loc'[p] = r /\ Others(p)
      BY <3>2 DEF IInv, ShapeOK, Others
    <3>6. ASSUME NEW h \in Hosts, Local("bulk_test", k, h) PROVE Local("bulk_each", r, h)'
      <4>1. r.kind = k.kind /\ r.host = k.host
        BY <3>3 DEF From
      <4>2. Snapped(r, h)' /\ Rendered("bulk_each", r, h)'
        BY <1>1, <3>2, <3>3, <3>6 DEF Local, Snapped, Rendered, Live
      <4>3. Due("bulk_each", r, h)' => Due("bulk_test", k, h) /\ ~Enabling("bulk_test", k, h)
        BY <1>4, <3>2, <3>3, <4>1 DEF Due, Live, Before, BulkPcs, Enabling
      <4>4. Due("bulk_test", k, h) /\ ~Enabling("bulk_test", k, h) => Held(h)'
        <5>1. CASE h \in B
          BY <1>1, <2>1, <3>2, <3>6, <5>1 DEF Local, Replaced, Held, putBack, Working
        <5>2. CASE h \notin B
          BY <1>1, <2>1, <3>2, <3>6, <5>2 DEF Local, Replaced, Held, putBack, Working
        <5> QED
          BY <5>1, <5>2
      <4> QED
        BY <3>2, <3>3, <3>6, <4>1, <4>2, <4>3, <4>4 DEF Local, Replaced
    <3> QED
      BY <1>1, <1>4, <2>1, <3>2, <3>3, <3>4, <3>5, <3>6, RStays
  <2>4. CASE ~test(conf, site) /\ ~test(putBack(p, B), site)
    <3>1. row' = row /\ AfterBulk(p, FALSE) /\ Refuse(p)
      BY <1>1, <1>8, <2>4 DEF BulkTest, Batch
    <3>2. RowsOK'
      BY <1>2, <2>1, <3>1 DEF RowsOK, Live
    <3>3. CASE Done(p)
      BY <1>1, <1>4, <3>1, <3>2, <3>3, RRefuses
    <3>4. CASE Goto(p, "cert_done") /\ loc' = loc
      <4>1. \A h \in Hosts : ~Clean(h)'
        BY <1>1, <1>4, <3>1 DEF Refuse, Clean
      <4>2. pc'[p] = "cert_done" /\ loc'[p] = k /\ Others(p)
        BY <1>5, <3>4
      <4>3. KindOK("cert_done", k)
        BY <1>2, <2>1 DEF KindOK, HostPcs, ListPcs, BulkPcs
      <4> QED
        BY <1>1, <1>4, <3>1, <3>2, <4>1, <4>2, <4>3, RKept DEF Refuse
    <3> QED
      BY <3>1, <3>3, <3>4 DEF AfterBulk
  <2> QED
    BY <2>2, <2>3, <2>4
<1> QED
  BY <1>6, <1>7, <1>8

\* After a refused batch each host is tried alone.
LEMMA RTriedAlone ==
    ASSUME IInv, RInv, NEW p \in Procs, BulkEach(p) \/ BulkEnd(p)
    PROVE  RInv'
<1>1. PICK k, B : k = loc[p] /\ B = DOMAIN k.snap
  OBVIOUS
<1>2. /\ KindOK(pc[p], k) /\ RowsOK /\ DOMAIN k = LocFields /\ Under(pc[p], k)
      /\ DOMAIN conf = Hosts /\ DOMAIN stash = Hosts /\ DOMAIN bak = Hosts
  BY <1>1 DEF IInv, ShapeOK, RInv, KindsOK
<1>3. pc[p] \in {"bulk_each", "bulk_end"}
  BY DEF BulkEach, BulkEnd
<1>4. Touches(k) = Hosts /\ k.kind \in {"create", "update", "list", "unlist"}
  BY <1>2, <1>3, TouchesKind DEF KindOK, BulkPcs, AllKinds
<1>5. CASE BulkEach(p)
  <2>1. pc[p] = "bulk_each" /\ UNCHANGED <<bak, stash, row, rules>> /\ Worse
    BY <1>5 DEF BulkEach, Told, history, Worse, KeepDb, db
  <2>2. PICK h \in k.left :
           LET new == [conf EXCEPT ![h] = generateConfig(k.snap[h])] IN
           /\ conf' = IF test(new, site) THEN new ELSE putBack(p, {h})
           /\ loc' = [loc EXCEPT ![p].left = @ \ {h},
                                 ![p].bad = IF test(new, site) THEN @ ELSE @ \cup {h}]
           /\ pc' = [pc EXCEPT ![p] = IF k.left = {h} THEN "bulk_end" ELSE "bulk_each"]
    BY <1>1, <1>5 DEF BulkEach, Goto
  <2>3. PICK new : new = [conf EXCEPT ![h] = generateConfig(k.snap[h])]
    OBVIOUS
  <2>4. PICK l : l = IF k.left = {h} THEN "bulk_end" ELSE "bulk_each"
    OBVIOUS
  <2>5. PICK r : r = [k EXCEPT !.left = @ \ {h}, !.bad = IF test(new, site) THEN @ ELSE @ \cup {h}]
    OBVIOUS
  <2>6. l \in {"bulk_each", "bulk_end"} /\ pc' = [pc EXCEPT ![p] = l] /\ loc' = [loc EXCEPT ![p] = r]
    BY <1>1, <2>2, <2>3, <2>4, <2>5
  <2>7. /\ From(r, k) /\ r.snap = k.snap /\ r.old = k.old /\ r.rules = k.rules /\ r.left = k.left \ {h}
        /\ r.bad = IF test(new, site) THEN k.bad ELSE k.bad \cup {h}
    BY <1>2, <2>5 DEF LocFields, From
  <2>8. k.left \subseteq B /\ h \in B
    BY <1>1, <1>2, <2>1, <2>2 DEF KindOK
  <2>9. KindOK(l, r) /\ RowsOK'
    BY <1>1, <1>2, <2>1, <2>4, <2>6, <2>7, <2>8 DEF KindOK, From, HostPcs, ListPcs, BulkPcs, RowsOK, Live
  <2>10. pc'[p] = l /\ loc'[p] = r /\ Others(p)
    BY <2>6 DEF IInv, ShapeOK, Others
  <2>11. /\ \A g \in Hosts \ {h} : conf'[g] = conf[g]
         /\ ~test(new, site) /\ h \in Hosts => conf'[h] = conf[h]
         /\ test(new, site) /\ h \in Hosts => conf'[h] = generateConfig(k.snap[h]) /\ Accepted(conf'[h])
    <3>1. CASE test(new, site)
      <4>1. conf' = new
        BY <2>2, <2>3, <3>1
      <4> QED
        BY <1>2, <2>3, <3>1, <4>1 DEF test
    <3>2. CASE ~test(new, site)
      <4>1. conf' = putBack(p, {h})
        BY <2>2, <2>3, <3>2
      <4>2. h \in Hosts => conf[h] = IF h \in k.had THEN bak[h] ELSE None
        BY <1>2, <2>1, <2>2 DEF Under
      <4> QED
        BY <1>1, <3>2, <4>1, <4>2 DEF putBack
    <3> QED
      BY <3>1, <3>2
  <2>12. ASSUME NEW g \in Hosts, Local("bulk_each", k, g) PROVE Local(l, r, g)'
    <3>1. r.kind = k.kind /\ r.host = k.host /\ DOMAIN r.snap = B
      BY <1>1, <2>7 DEF From
    <3>2. Snapped(r, g)'
      BY <2>1, <2>7, <2>12 DEF Local, Snapped, Live
    <3>3. Rendered(l, r, g)'
      BY <1>1, <2>6, <2>7, <2>11, <2>12, <3>1 DEF Local, Rendered
    <3>4. Due(l, r, g)' => Due("bulk_each", k, g) /\ row[g].enabled /\ Live(g)
      BY <1>4, <2>1, <2>6, <2>7, <2>12, <3>1 DEF Due, Live, Before, BulkPcs, Local, Fine
    <3>5. Due("bulk_each", k, g) => Held(g)
      BY <1>4, <2>12 DEF Local, Enabling, Replaced
    <3>6. Due(l, r, g)' => Held(g)'
      <4>1. CASE conf'[g] = conf[g]
        BY <2>1, <3>4, <3>5, <4>1 DEF Held
      <4>2. CASE conf'[g] # conf[g]
        <5>1. g = h /\ conf'[g] = generateConfig(k.snap[g]) /\ Accepted(conf'[g])
          BY <2>11, <4>2
        <5>2. ASSUME row[g].enabled, Live(g) PROVE Serving(generateConfig(k.snap[g]))
          BY <1>1, <2>8, <2>12, <5>1, <5>2, Renders DEF Local, Snapped
        <5> QED
          BY <3>4, <5>1, <5>2 DEF Held, Working
      <4> QED
        BY <4>1, <4>2
    <3>7. r.kind = "update" /\ g = r.host => r.old.enabled = row'[g].enabled
      BY <2>1, <2>7, <2>12, <3>1 DEF Local
    <3> QED
      BY <2>6, <3>2, <3>3, <3>6, <3>7 DEF Local, Replaced
  <2> QED
    BY <1>1, <1>4, <2>1, <2>7, <2>9, <2>10, <2>12, RStays
<1>6. CASE BulkEnd(p)
  <2>1. /\ pc[p] = "bulk_end" /\ row' = Marked(p, B \ k.bad, k.bad) /\ AfterBulk(p, k.bad = {})
        /\ UNCHANGED <<conf, stash, rules>> /\ Worse
    BY <1>1, <1>6 DEF BulkEnd, Batch, Told, history, Worse
  <2>2. /\ RowsOK'
        /\ \A h \in Hosts : /\ row'[h].alive = row[h].alive /\ row'[h].enabled = row[h].enabled
                            /\ h \notin (B \ k.bad) \cup k.bad => row'[h] = row[h]
                            /\ h \in k.bad => row'[h].meta # "ok"
    <3>1. PICK ok, bad : ok = B \ k.bad /\ bad = k.bad
      OBVIOUS
    <3>2. row' = Marked(p, ok, bad) /\ rules' = rules
      BY <2>1, <3>1
    <3>3. /\ RowsOK'
          /\ \A h \in Hosts : /\ row'[h].alive = row[h].alive /\ row'[h].enabled = row[h].enabled
                              /\ h \notin ok \cup bad => row'[h] = row[h]
                              /\ h \in bad => row'[h].meta # "ok"
      BY <1>2, <3>2, MarksRows
    <3> QED
      BY <3>1, <3>3
  <2>3. ASSUME NEW h \in Hosts, Clean(h), Local("bulk_end", k, h), Live(h),
               Fine(row'[h]) \/ (k.kind = "update" /\ h = k.host /\ Fine(k.old))
        PROVE  Held(h)'
    <3>1. row[h].enabled
      BY <2>2, <2>3 DEF Fine, Local
    <3>2. CASE h \in B \ k.bad
      <4>1. k.left = {}
        BY <1>2, <2>1 DEF KindOK
      <4>2. conf[h] = generateConfig(k.snap[h]) /\ Accepted(conf[h])
        BY <1>1, <2>3, <3>2, <4>1 DEF Local, Rendered
      <4>3. Serving(generateConfig(k.snap[h]))
        BY <1>1, <2>3, <3>1, <3>2, Renders DEF Local, Snapped
      <4> QED
        BY <2>1, <4>2, <4>3 DEF Held, Working
    <3>3. CASE h \notin B \ k.bad
      <4>1. Due("bulk_end", k, h) /\ ~Enabling("bulk_end", k, h) /\ ~Replaced("bulk_end", k, h)
        BY <1>4, <2>2, <2>3, <3>3 DEF Due, Before, BulkPcs, Enabling, Replaced, Fine
      <4>2. Held(h)
        BY <2>3, <4>1 DEF Local
      <4> QED
        BY <2>1, <4>2 DEF Held
    <3> QED
      BY <3>2, <3>3
  <2>4. \/ k.cert /\ Goto(p, "cert_done") /\ loc' = loc
        \/ Goto(p, "reload") /\ loc' = loc
        \/ Done(p)
    BY <1>1, <2>1 DEF AfterBulk
  <2> QED
    BY <1>1, <2>1, <2>2, <2>3, <2>4, RBatchEnds
<1> QED
  BY <1>5, <1>6

\* A restart in the middle of a save counts as a failure of that save.
LEMMA RRestarted == ASSUME IInv, RInv, Restart PROVE RInv'
<1>1. /\ pc' = [p \in Procs |-> "idle"] /\ loc' = [p \in Procs |-> Idle]
      /\ UNCHANGED <<row, rules, conf, bak, stash, raced>>
  BY DEF Restart, KeepDb, db, files
<1>2. /\ refused \subseteq refused' \/ Hosts \subseteq refused'
      /\ \A p \in Procs : \A h \in Hosts \cap Touches(loc[p]) : h \in refused'
  BY DEF Restart
<1>3. RowsOK'
  BY <1>1 DEF RInv, RowsOK, Live
<1>4. \A p \in Procs : pc'[p] = "idle" /\ loc'[p] = Idle /\ Touches(loc'[p]) = {}
  BY <1>1, IdleTouches
<1>5. KindsOK' /\ Sole'
  BY <1>4, IdleTouches DEF KindsOK, Sole
<1>6. ASSUME NEW h \in Hosts, Clean(h)', Live(h)', Fine(row'[h]) PROVE Held(h)'
  <2>1. Clean(h) /\ Untouched(h)
    BY <1>1, <1>2, <1>6 DEF Clean, Untouched
  <2>2. Held(h)
    BY <1>1, <1>6, <2>1 DEF RInv, Kept, Live
  <2> QED
    BY <1>1, <2>2 DEF Held
<1> QED
  BY <1>3, <1>4, <1>5, <1>6 DEF RInv, Kept

\* At the start nginx serves the hosts that exist.
LEMMA RInitially == Init => RInv
<1> SUFFICES ASSUME Init PROVE RInv
  OBVIOUS
<1>1. /\ pc = [p \in Procs |-> "idle"] /\ loc = [p \in Procs |-> Idle] /\ rules = 1 /\ listed
      /\ DOMAIN conf = Hosts /\ DOMAIN row = Hosts
  BY DEF Init
<1>2. ASSUME NEW h \in Hosts
      PROVE  /\ DOMAIN row[h] = RowFields
             /\ Live(h) => h \in Existing /\ row[h].enabled /\ row[h].set = First[h]
  <2>1. CASE h \in Existing
    BY <2>1 DEF Init, RowFields
  <2>2. CASE h \notin Existing
    BY <2>2 DEF Init, RowFields, NoRow, Live
  <2> QED
    BY <2>1, <2>2
<1>3. RowsOK
  BY <1>1, <1>2, HostAssumption DEF RowsOK, HostAssumption
<1>4. \A p \in Procs : pc[p] = "idle" /\ loc[p] = Idle /\ Touches(loc[p]) = {}
  BY <1>1, IdleTouches
<1>5. KindsOK /\ Sole
  BY <1>4, IdleTouches DEF KindsOK, Sole
<1>6. ASSUME NEW h \in Hosts, Live(h) PROVE Held(h)
  <2>1. PICK s : s = Fetched(h)
    OBVIOUS
  <2>2. conf[h] = generateConfig(s)
    BY <1>6, <2>1 DEF Init
  <2>3. s.row = row[h] /\ s.row.set \in Settings /\ s.rules \in Nat /\ s.row.enabled
    BY <1>2, <1>3, <1>6, <2>1, Fetches
  <2>4. Serving(conf[h])
    BY <2>2, <2>3, Renders
  <2>5. conf[h].set = First[h] /\ First[h] \notin Rejected
    BY <1>2, <1>6, <2>2, <2>3, HostAssumption DEF generateConfig, HostAssumption
  <2> QED
    BY <2>4, <2>5 DEF Held, Working, Accepted
<1> QED
  BY <1>3, <1>4, <1>5, <1>6 DEF RInv, Kept

\* Every step keeps the invariant.
LEMMA RInductive == IInv /\ RInv /\ [Next]_vars => RInv'
<1> SUFFICES ASSUME IInv, RInv, [Next]_vars PROVE RInv'
  OBVIOUS
<1>1. ASSUME NEW p \in Procs, Receive(p) \/ Step(p) PROVE RInv'
  BY <1>1, RReceived, RReads, RGoesOn, RListed, RPatched, RTakenOut, RConfigured, RRenderFailed, RBatched,
     RTriedAlone DEF Step
<1>2. CASE Restart
  BY <1>2, RRestarted
<1>3. CASE UNCHANGED vars
  <2>1. /\ row' = row /\ rules' = rules /\ conf' = conf /\ bak' = bak /\ stash' = stash
        /\ pc' = pc /\ loc' = loc /\ raced' = raced /\ refused' = refused
    BY <1>3 DEF vars, db, files, history
  <2>2. RowsOK' /\ KindsOK' /\ Sole'
    BY <2>1 DEF RInv, RowsOK, KindsOK, Sole, Live, Clean
  <2>3. ASSUME NEW p \in Procs, NEW h \in Hosts \cap Touches(loc'[p]), Clean(h)'
        PROVE  Local(pc[p], loc[p], h)'
    <3>1. PICK l, r : l = pc[p] /\ r = loc[p]
      OBVIOUS
    <3>2. Local(l, r, h) /\ Same(h)
      BY <2>1, <2>3, <3>1 DEF RInv, Kept, Clean, Same
    <3>3. Local(l, r, h)'
      BY <3>2, LocalSame
    <3>4. pc'[p] = l /\ loc'[p] = r
      BY <2>1, <3>1
    <3> QED
      BY <3>3, <3>4, Zenon DEF Local, Snapped, Rendered, Due, Enabling, Replaced
  <2>4. ASSUME NEW h \in Hosts, Clean(h)', Untouched(h)', Live(h)', Fine(row'[h]) PROVE Held(h)'
    BY <2>1, <2>4 DEF RInv, Kept, Clean, Untouched, Live, Held
  <2> QED
    BY <2>2, <2>3, <2>4 DEF RInv, Kept
<1> QED
  BY <1>1, <1>2, <1>3 DEF Next

\* For any number of hosts, overlapping requests and restarts: a host whose row reports no
\* error, and none of whose saves raced or failed, has an accepted conf on disk at every
\* moment, live, as .bak or as .disabled, unless it is just being enabled.
THEOREM AlwaysRecoverable == Spec => []Recoverable
<1>1. RInv => Recoverable
  <2> SUFFICES ASSUME RInv, NEW h \in Hosts, h \notin raced \cup refused, Live(h), row[h].enabled, row[h].meta = "ok"
               PROVE  \/ \E c \in {conf[h], bak[h], stash[h]} : Serving(c) /\ Accepted(c)
                      \/ \E p \in Procs : h = loc[p].host /\ loc[p].kind = "enable"
    BY DEF Recoverable
  <2>1. Clean(h) /\ Fine(row[h])
    BY DEF Clean, Fine
  <2>2. Held(h) => \E c \in {conf[h], bak[h], stash[h]} : Serving(c) /\ Accepted(c)
    BY DEF Held, Working
  <2>3. CASE Untouched(h)
    BY <2>1, <2>2, <2>3 DEF RInv, Kept
  <2>4. ASSUME NEW p \in Procs, h \in Touches(loc[p])
        PROVE  \/ \E c \in {conf[h], bak[h], stash[h]} : Serving(c) /\ Accepted(c)
               \/ h = loc[p].host /\ loc[p].kind = "enable"
    <3>1. Local(pc[p], loc[p], h) /\ Due(pc[p], loc[p], h)
      BY <2>1, <2>4 DEF RInv, Kept, Due
    <3> QED
      BY <2>2, <3>1 DEF Local, Enabling, Working
  <2> QED
    BY <2>3, <2>4 DEF Untouched
<1> QED
  BY <1>1, Initially, Inductive, RInitially, RInductive, PTL DEF Spec

-----------------------------------------------------------------------------
(* The rows tell what nginx serves *)

\* Nothing is said of any host any more: each was raced or has a failed save.
NoneClean == \A h \in Hosts : ~Clean(h)
\* A certificate request or a batch is about to take stashed confs back.
Taking == \E q \in Procs : pc[q] \in {"cert_request", "bulk"}

SitePcs == {"site_delete", "site_generate", "site_reload", "site_undo"}

\* A conf is live or stashed, never both, and stashed only for such a request.
StashInv ==
    /\ \A h \in Hosts : conf[h] = None \/ stash[h] = None
    /\ \A h \in Hosts : stash[h] # None =>
          NoneClean \/ \E q \in Procs : pc[q] \in {"cert_request", "bulk"} /\ h \in DOMAIN loc[q].snap
    /\ \A p \in Procs : /\ pc[p] \in {"generate", "verify"} => stash[loc[p].host] = None
                        /\ pc[p] \in {"bulk_generate", "bulk_test", "bulk_each"} =>
                              \A h \in Hosts \cap DOMAIN loc[p].snap : stash[h] = None

\* What a request at l knows of nginx -t, which the reload after it runs again.
Sound(l, r) ==
    /\ l \in {"backup", "bulk_each", "bulk_end"} => test(conf, site)
    /\ l \in {"clear", "generate", "verify"} =>
          test(PutBack(conf, bak, r.had, {r.host}), site) \/ NoneClean \/ Taking
    /\ l = "activate" => test(conf, site) \/ NoneClean \/ Taking
    /\ l = "cert_done" /\ DOMAIN r.snap # {} => (Free => test(conf, site)) \/ NoneClean
    /\ l \in SitePcs => r.kind = "site"

SInv == StashInv /\ \A p \in Procs : Sound(pc[p], loc[p])

\* nginx -t has nothing against a live set with fewer confs.
LEMMA TestLess ==
    ASSUME NEW c, NEW d, NEW s, test(c, s), \A h \in Hosts : d[h] = c[h] \/ d[h] = None
    PROVE  test(d, s)
<1>1. \A h \in Hosts : Accepted(d[h])
  BY Nothing DEF test
<1>2. \A h \in Hosts : Serving(d[h]) => d[h] = c[h]
  BY Nothing
<1>3. ASSUME NEW g \in Hosts, NEW h \in Hosts, type[g] = "stream", type[h] = "stream",
             Serving(d[g]), Serving(d[h]), g # h
      PROVE  Name[d[g].set] # Name[d[h].set]
  BY <1>2, <1>3 DEF test
<1> QED
  BY <1>1, <1>3 DEF test

\* Two requests that work on every host have spoilt all of them.
LEMMA BothOnAll ==
    ASSUME RInv, NEW p \in Procs, NEW q \in Procs, p # q,
           Touches(loc[p]) = Hosts, Touches(loc[q]) = Hosts
    PROVE  NoneClean
BY DEF RInv, Sole, NoneClean

\* Which requests work on every host.
LEMMA OnAll ==
    ASSUME IInv, RInv, NEW p \in Procs,
           pc[p] \in CertPcs \cup BulkPcs \cup ListPcs \/ loc[p].kind \in {"list", "unlist", "site"}
    PROVE  Touches(loc[p]) = Hosts
<1>1. KindOK(pc[p], loc[p]) /\ ReadOK(pc[p], loc[p], type)
  BY DEF IInv, RInv, KindsOK
<1>2. loc[p].cert \/ loc[p].kind \in {"list", "unlist", "site"}
  BY <1>1 DEF KindOK, ReadOK
<1>3. loc[p].kind \in AllKinds
  BY <1>1, <1>2 DEF KindOK, AllKinds
<1> QED
  BY <1>1, <1>2, <1>3, TouchesKind

\* While a certificate request ends, no other one takes confs back from the stash.
LEMMA EndsAlone ==
    ASSUME IInv, RInv, NEW p \in Procs, pc[p] = "cert_done", Taking
    PROVE  NoneClean
<1>1. PICK q \in Procs : pc[q] \in {"cert_request", "bulk"}
  BY DEF Taking
<1>2. Touches(loc[p]) = Hosts /\ Touches(loc[q]) = Hosts
  BY <1>1, OnAll DEF CertPcs, BulkPcs
<1> QED
  BY <1>1, <1>2, BothOnAll

\* A step of one request keeps what the others know of nginx -t.
LEMMA SKept ==
    ASSUME IInv, RInv, SInv, NEW p \in Procs, NEW l, NEW r, pc'[p] = l, loc'[p] = r, Others(p), Worse,
           type' = type, StashInv', Sound(l, r)',
           lock \notin {None, p} => UNCHANGED <<conf, bak, site>>,
           pc[p] \in {"cert_request", "bulk"} => l \in {"cert_request", "bulk"} \/ lock \in {None, p},
           \/ Touches(loc[p]) = Hosts
           \/ ~Free'
           \/ (Free' => Free) /\ (test(conf, site) => test(conf, site)')
           \/ test(conf, site)' \/ NoneClean \/ Taking
    PROVE  SInv'
<1>1. NoneClean => NoneClean'
  BY DEF NoneClean, Clean, Worse
<1>2. ASSUME NEW q \in Procs, q # p PROVE Sound(pc[q], loc[q])'
  <2>1. PICK k, s : k = pc[q] /\ s = loc[q]
    OBVIOUS
  <2>2. pc'[q] = k /\ loc'[q] = s /\ Sound(k, s)
    BY <1>2, <2>1 DEF Others, SInv
  <2>3. CASE k \in Locked
    <3>1. lock = q /\ lock # None
      BY <2>1, <2>3, HostAssumption DEF IInv, LockOK, HostAssumption
    <3>2. UNCHANGED <<conf, bak, site>>
      BY <1>2, <3>1
    <3>3. Taking => Taking'
      BY <1>2, <3>1 DEF Taking, Others
    <3>4. Sound(k, s)'
      BY <1>1, <2>2, <2>3, <3>2, <3>3 DEF Sound, test, Locked, PutBack, SitePcs
    <3> QED
      BY <2>2, <3>4, Zenon DEF Sound
  <2>4. CASE k = "cert_done" /\ DOMAIN s.snap # {}
    <3>1. (Free => test(conf, site)) \/ NoneClean
      BY <2>2, <2>4 DEF Sound
    <3>2. Touches(loc[p]) = Hosts => NoneClean
      BY <1>2, <2>1, <2>4, OnAll, BothOnAll DEF CertPcs
    <3>3. Taking => NoneClean
      BY <2>1, <2>4, EndsAlone
    <3>4. (Free' => test(conf, site)') \/ NoneClean'
      BY <1>1, <3>1, <3>2, <3>3
    <3>5. Sound(k, s)'
      BY <2>4, <3>4 DEF Sound, SitePcs
    <3> QED
      BY <2>2, <3>5, Zenon DEF Sound
  <2>5. CASE k \notin Locked /\ ~(k = "cert_done" /\ DOMAIN s.snap # {})
    <3>1. Sound(k, s)'
      BY <2>2, <2>5 DEF Sound, Locked
    <3> QED
      BY <2>2, <3>1, Zenon DEF Sound
  <2> QED
    BY <2>3, <2>4, <2>5
<1>3. Sound(pc[p], loc[p])'
  BY Zenon DEF Sound
<1> QED
  BY <1>2, <1>3 DEF SInv

\* Where the files stay as they are.
LEMMA StashKept ==
    ASSUME IInv, SInv, NEW p \in Procs, NEW l, NEW r, pc'[p] = l, loc'[p] = r, Others(p), Worse,
           UNCHANGED <<conf, stash>>,
           l \notin {"generate", "verify", "bulk_generate", "bulk_test", "bulk_each"},
           \/ pc[p] \notin {"cert_request", "bulk"} 
           \/ DOMAIN loc[p].snap = {}
           \/ l \in {"cert_request", "bulk"} /\ DOMAIN r.snap = DOMAIN loc[p].snap
    PROVE  StashInv'
<1>1. NoneClean => NoneClean'
  BY DEF NoneClean, Clean, Worse
<1>2. ASSUME NEW h \in Hosts, stash[h] # None, ~NoneClean
      PROVE  \E q \in Procs : pc'[q] \in {"cert_request", "bulk"} /\ h \in DOMAIN loc'[q].snap
  <2>1. PICK q \in Procs : pc[q] \in {"cert_request", "bulk"} /\ h \in DOMAIN loc[q].snap
    BY <1>2 DEF SInv, StashInv
  <2>2. CASE q = p
    BY <2>1, <2>2
  <2>3. CASE q # p
    BY <2>1, <2>3 DEF Others
  <2> QED
    BY <2>2, <2>3
<1>3. ASSUME NEW q \in Procs
      PROVE  /\ pc'[q] \in {"generate", "verify"} => stash[loc'[q].host] = None
             /\ pc'[q] \in {"bulk_generate", "bulk_test", "bulk_each"} =>
                   \A h \in Hosts \cap DOMAIN loc'[q].snap : stash[h] = None
  BY DEF Others, SInv, StashInv
<1> QED
  BY <1>1, <1>2, <1>3 DEF SInv, StashInv

\* Requests that begin, read, write rows, test or reload: the files stay as they are.
LEMMA SQuiet ==
    ASSUME IInv, RInv, SInv, NEW p \in Procs, NEW l, NEW r, pc'[p] = l, loc'[p] = r, Others(p), Worse,
           UNCHANGED <<type, conf, bak, stash, site>>,
           l \notin (Locked \cup {"cert_done"}) \/ (l = "backup" /\ test(conf, site))
              \/ (l = "cert_done" /\ DOMAIN r.snap = {}),
           l \in SitePcs => r.kind = "site",
           \/ pc[p] \notin {"cert_request", "bulk"}
           \/ Free /\ (DOMAIN loc[p].snap = {} \/ (l \in {"cert_request", "bulk"} /\ DOMAIN r.snap = DOMAIN loc[p].snap)),
           \/ lock' = lock
           \/ lock' = p
           \/ pc[p] = "activate" /\ lock' = None
    PROVE  SInv'
<1>1. StashInv'
  BY StashKept DEF Locked, SitePcs
<1>2. test(conf, site)' <=> test(conf, site)
  BY DEF test
<1>3. Sound(l, r)'
  BY <1>2 DEF Sound, Locked, SitePcs
<1>4. pc[p] = "activate" => test(conf, site) \/ NoneClean \/ Taking
  BY DEF SInv, Sound
<1>5. lock' = p => ~Free'
  BY HostAssumption DEF Free, HostAssumption
<1>6. lock' = lock => (Free' => Free)
  BY DEF Free
<1>7. pc[p] \in {"cert_request", "bulk"} => l \in {"cert_request", "bulk"} \/ lock \in {None, p}
  BY DEF Free
<1>8. \/ ~Free'
      \/ (Free' => Free) /\ (test(conf, site) => test(conf, site)')
      \/ test(conf, site)' \/ NoneClean \/ Taking
  BY <1>2, <1>4, <1>5, <1>6
<1> QED
  BY <1>1, <1>3, <1>7, <1>8, SKept

\* The handlers outside the lock, except for what they write to the live set.
LEMMA SHandled ==
    ASSUME IInv, RInv, SInv, NEW p \in Procs,
           \/ Receive(p)
           \/ Get(p) \/ Patch(p) \/ Fetch(p) \/ reload(p) \/ ConfigureTest(p) \/ ConfigureReload(p)
           \/ ListClear(p) \/ ListFill(p) \/ ListFetch(p) \/ ListBuild(p)
           \/ ListGet(p) \/ ListDrop(p) \/ ListDetach(p)
           \/ getHostsWithDomains(p) \/ requestLetsEncryptSsl(p) \/ CertDone(p) \/ SiteReload(p)
    PROVE  SInv'
<1> USE DEF Worse, Told, history, Keep, KeepSite, KeepDb, KeepFiles, files
<1>0. DOMAIN pc = Procs /\ DOMAIN loc = Procs /\ DOMAIN loc[p] = LocFields
  BY DEF IInv, ShapeOK
<1>1. ASSUME NEW l, pc' = [pc EXCEPT ![p] = l], \A q \in Procs \ {p} : loc'[q] = loc[q], Worse,
             UNCHANGED <<type, conf, bak, stash, site>>,
             l \notin (Locked \cup {"cert_done"}) \/ (l = "backup" /\ test(conf, site)),
             l \in SitePcs => loc'[p].kind = "site",
             pc[p] \notin {"cert_request", "bulk"},
             lock' = lock \/ lock' = p \/ (pc[p] = "activate" /\ lock' = None)
      PROVE  SInv'
  <2>1. PICK r : r = loc'[p]
    OBVIOUS
  <2>2. pc'[p] = l /\ Others(p)
    BY <1>0, <1>1 DEF Others
  <2> QED
    BY <1>1, <2>1, <2>2, SQuiet
<1>2. CASE Receive(p)
  <2>0. \E l \in {"get", "patch", "list_clear", "list_get", "site_delete"} :
           \E r : Request(p, r, l) /\ (l \in SitePcs => r.kind = "site")
    <3>1. CASE Create(p)
      BY <3>1 DEF Create, SitePcs
    <3>2. CASE Update(p)
      BY <3>2 DEF Update, SitePcs
    <3>3. CASE Change(p, "enable") \/ Change(p, "disable") \/ Change(p, "delete")
      BY <3>3 DEF Change, SitePcs
    <3>4. CASE ListUpdate(p)
      BY <3>4 DEF ListUpdate, SitePcs
    <3>5. CASE ListDelete(p)
      BY <3>5 DEF ListDelete, SitePcs
    <3>6. CASE SettingUpdate(p)
      BY <3>6 DEF SettingUpdate, SitePcs, Fresh
    <3> QED
      BY <1>2, <3>1, <3>2, <3>3, <3>4, <3>5, <3>6 DEF Receive
  <2>1. PICK l \in {"get", "patch", "list_clear", "list_get", "site_delete"} :
           \E r : Request(p, r, l) /\ (l \in SitePcs => r.kind = "site")
    BY <2>0
  <2>2. /\ pc' = [pc EXCEPT ![p] = l] /\ \A q \in Procs \ {p} : loc'[q] = loc[q]
        /\ UNCHANGED <<type, conf, bak, stash, site, lock>> /\ Worse /\ pc[p] = "idle"
        /\ l \in SitePcs => loc'[p].kind = "site"
    BY <2>1, <1>0 DEF Request, Goto
  <2> QED
    BY <1>1, <2>2 DEF Locked, SitePcs
<1>3. CASE Get(p) \/ Fetch(p)
  <2>1. PICK l \in {"idle", "cert_find", "patch", "configure"} : pc' = [pc EXCEPT ![p] = l]
    BY <1>3 DEF Get, Fetch, Goto, Done
  <2>2. /\ \A q \in Procs \ {p} : loc'[q] = loc[q]
        /\ UNCHANGED <<type, conf, bak, stash, site, lock>> /\ Worse /\ pc[p] \in {"get", "fetch"}
    BY <1>3, <1>0 DEF Get, Fetch, Done, Load, Set
  <2> QED
    BY <1>1, <2>1, <2>2 DEF Locked, SitePcs
<1>4. CASE Patch(p)
  <2>1. PICK l \in {"cert_find", "fetch", "configure", "delete"} : pc' = [pc EXCEPT ![p] = l]
    BY <1>4 DEF Patch, Goto
  <2>2. /\ \A q \in Procs \ {p} : loc'[q] = loc[q]
        /\ UNCHANGED <<type, conf, bak, stash, site, lock>> /\ Worse /\ pc[p] = "patch"
    BY <1>4, <1>0 DEF Patch
  <2> QED
    BY <1>1, <2>1, <2>2 DEF Locked, SitePcs
<1>5. CASE reload(p) \/ ConfigureReload(p)
  <2>1. /\ pc' = [pc EXCEPT ![p] = "idle"] /\ \A q \in Procs \ {p} : loc'[q] = loc[q]
        /\ UNCHANGED <<type, conf, bak, stash, site>> /\ Worse
        /\ (pc[p] = "reload" /\ lock' = lock) \/ (pc[p] = "activate" /\ lock' = None)
    BY <1>5, <1>0 DEF reload, ConfigureReload, Done, Goto, Release, Refuse
  <2> QED
    BY <1>1, <2>1 DEF Locked, SitePcs
<1>6. CASE ConfigureTest(p)
  <2>1. /\ UNCHANGED <<type, conf, bak, stash, site>> /\ Worse /\ pc[p] = "configure"
        /\ \A q \in Procs \ {p} : loc'[q] = loc[q]
    BY <1>6, <1>0 DEF ConfigureTest, Done, Refuse
  <2>2. CASE test(conf, site)
    <3>1. lock' = p /\ pc' = [pc EXCEPT ![p] = "backup"]
      BY <1>6, <2>2 DEF ConfigureTest, Goto
    <3> QED
      BY <1>1, <2>1, <2>2, <3>1 DEF SitePcs
  <2>3. CASE ~test(conf, site)
    <3>1. lock' = lock /\ pc' = [pc EXCEPT ![p] = "idle"]
      BY <1>6, <2>3 DEF ConfigureTest, Goto, Done
    <3> QED
      BY <1>1, <2>1, <3>1 DEF Locked, SitePcs
  <2> QED
    BY <2>2, <2>3
<1>7. CASE \/ ListClear(p) \/ ListFill(p) \/ ListFetch(p) \/ ListBuild(p) \/ ListGet(p) \/ ListDrop(p)
           \/ ListDetach(p) \/ getHostsWithDomains(p)
  <2>1. PICK l \in {"idle", "list_fill", "list_fetch", "list_build", "list_drop", "list_detach",
                    "bulk", "reload", "cert_stash"} : pc' = [pc EXCEPT ![p] = l]
    BY <1>7 DEF ListClear, ListFill, ListFetch, ListBuild, ListGet, ListDrop, ListDetach, getHostsWithDomains,
                Goto, Done
  <2>2. /\ \A q \in Procs \ {p} : loc'[q] = loc[q]
        /\ UNCHANGED <<type, conf, bak, stash, site, lock>> /\ Worse
        /\ pc[p] \in ListPcs \cup {"cert_find"}
    BY <1>7, <1>0 DEF ListClear, ListFill, ListFetch, ListBuild, ListGet, ListDrop, ListDetach,
                      getHostsWithDomains, Done, Load, Set, ListPcs
  <2> QED
    BY <1>1, <2>1, <2>2 DEF Locked, ListPcs, SitePcs
<1>8. CASE CertDone(p) \/ SiteReload(p)
  <2>1. PICK l \in {"idle", "fetch", "patch", "site_undo"} : pc' = [pc EXCEPT ![p] = l]
    BY <1>8 DEF CertDone, SiteReload, Goto, Done
  <2>2. /\ \A q \in Procs \ {p} : loc'[q] = loc[q]
        /\ UNCHANGED <<type, conf, bak, stash, site, lock>> /\ Worse
        /\ pc[p] \in {"cert_done", "site_reload"}
        /\ l = "site_undo" => loc'[p].kind = "site"
    <3>1. pc[p] = "site_reload" => loc[p].kind = "site"
      BY DEF SInv, Sound, SitePcs
    <3> QED
      BY <1>8, <1>0, <2>1, <3>1 DEF CertDone, SiteReload, Done, Goto
  <2> QED
    BY <1>1, <2>1, <2>2 DEF Locked, SitePcs
<1>9. CASE requestLetsEncryptSsl(p)
  <2>1. PICK l : l = IF Batch(p) = {} THEN "cert_done" ELSE "bulk"
    OBVIOUS
  <2>2. PICK ok : Set(p, "issued", ok)
    BY <1>9, Zenon DEF requestLetsEncryptSsl
  <2>3. PICK r : r = [loc[p] EXCEPT !.issued = ok]
    OBVIOUS
  <2>4. pc' = [pc EXCEPT ![p] = l] /\ loc' = [loc EXCEPT ![p] = r]
    BY <1>9, <2>1, <2>2, <2>3 DEF requestLetsEncryptSsl, Set, Goto
  <2>5. r.snap = loc[p].snap
    BY <1>0, <2>3 DEF LocFields
  <2>6. UNCHANGED <<type, conf, bak, stash, site, lock>> /\ Worse /\ pc[p] = "cert_request" /\ Free
    BY <1>9 DEF requestLetsEncryptSsl
  <2>7. pc'[p] = l /\ loc'[p] = r /\ Others(p)
    BY <1>0, <2>4 DEF Others
  <2>8. (l = "cert_done" /\ DOMAIN loc[p].snap = {}) \/ l = "bulk"
    BY <2>1 DEF Batch
  <2> QED
    BY <2>5, <2>6, <2>7, <2>8, SQuiet DEF Locked, SitePcs
<1> QED
  BY <1>2, <1>3, <1>4, <1>5, <1>6, <1>7, <1>8, <1>9

\* The default site is written, and confs are taken out of the live set.
LEMMA STakenOut ==
    ASSUME IInv, RInv, SInv, NEW p \in Procs,
           SiteDelete(p) \/ SiteGenerate(p) \/ SiteUndo(p) \/ deleteConfig(p) \/ bulkStashConfigs(p)
    PROVE  SInv'
<1> USE DEF Worse, Told, history, Keep, KeepSite, KeepDb, files
<1>0. DOMAIN pc = Procs /\ DOMAIN conf = Hosts /\ KindOK(pc[p], loc[p])
  BY DEF IInv, ShapeOK, RInv, KindsOK
<1>1. /\ Free /\ lock' = lock /\ loc' = loc /\ type' = type /\ Worse
      /\ pc[p] \in {"site_delete", "site_generate", "site_undo", "delete", "cert_stash"}
  BY DEF SiteDelete, SiteGenerate, SiteUndo, SiteWrite, deleteConfig, bulkStashConfigs
<1>2. PICK l \in {"site_generate", "site_reload", "reload", "cert_request"} : Goto(p, l)
  BY DEF SiteDelete, SiteGenerate, SiteUndo, SiteWrite, deleteConfig, bulkStashConfigs
<1>3. PICK r : r = loc[p]
  OBVIOUS
<1>4. pc'[p] = l /\ loc'[p] = r /\ Others(p)
  BY <1>0, <1>1, <1>2, <1>3 DEF Goto, Others
<1>5. lock \in {None, p} /\ (Free' => Free)
  BY <1>1 DEF Free
<1>6. CASE SiteDelete(p) \/ SiteGenerate(p) \/ SiteUndo(p)
  <2>1. UNCHANGED <<conf, stash>> /\ pc[p] \in {"site_delete", "site_generate", "site_undo"}
    BY <1>6 DEF SiteDelete, SiteGenerate, SiteUndo, SiteWrite
  <2>2. StashInv'
    BY <1>1, <1>2, <1>4, <2>1, StashKept
  <2>3. loc[p].kind = "site"
    BY <2>1 DEF SInv, Sound, SitePcs
  <2>4. Touches(loc[p]) = Hosts
    BY <2>3, OnAll
  <2>5. Sound(l, r)'
    BY <1>2, <1>3, <2>3 DEF Sound
  <2> QED
    BY <1>1, <1>4, <1>5, <2>1, <2>2, <2>4, <2>5, SKept
<1>7. CASE deleteConfig(p) \/ bulkStashConfigs(p)
  <2>1. /\ bak' = bak /\ site' = site /\ l \in {"reload", "cert_request"}
        /\ \A h \in Hosts : conf'[h] = conf[h] \/ conf'[h] = None
    BY <1>0, <1>2, <1>4, <1>7 DEF deleteConfig, bulkStashConfigs, Goto
  <2>2. test(conf, site) => test(conf, site)'
    <3>1. PICK c, s : c = conf' /\ s = site
      OBVIOUS
    <3>2. test(conf, site) => test(c, s)
      BY <2>1, <3>1, TestLess
    <3> QED
      BY <1>1, <2>1, <3>1, <3>2 DEF test
  <2>3. StashInv'
    <3>1. NoneClean => NoneClean'
      BY <1>1 DEF NoneClean, Clean
    <3>2. ASSUME NEW h \in Hosts, stash[h] # None
          PROVE  NoneClean' \/ \E q \in Procs : pc'[q] \in {"cert_request", "bulk"} /\ h \in DOMAIN loc'[q].snap
      BY <1>1, <1>4, <3>1, <3>2 DEF SInv, StashInv, Others
    <3>3. \A q \in Procs : pc'[q] \notin Locked
      BY <1>1, <1>4, <2>1, HostAssumption DEF IInv, LockOK, Others, Free, Locked, HostAssumption
    <3>4. CASE deleteConfig(p)
      <4>1. stash' = stash
        BY <3>4 DEF deleteConfig
      <4> QED
        BY <2>1, <3>2, <3>3, <4>1 DEF SInv, StashInv, Locked
    <3>5. CASE bulkStashConfigs(p)
      <4>1. /\ pc'[p] = "cert_request" /\ DOMAIN loc'[p].snap = Batch(p)
            /\ \A h \in Hosts : \/ h \in Batch(p) /\ conf'[h] = None
                                \/ conf'[h] = conf[h] /\ stash'[h] = stash[h]
        BY <1>0, <1>1, <3>5 DEF bulkStashConfigs, Goto, Batch
      <4>2. ASSUME NEW h \in Hosts
            PROVE  conf'[h] = None \/ stash'[h] = None
        BY <4>1 DEF SInv, StashInv
      <4>3. ASSUME NEW h \in Hosts, stash'[h] # None
            PROVE  NoneClean' \/ \E q \in Procs : pc'[q] \in {"cert_request", "bulk"} /\ h \in DOMAIN loc'[q].snap
        BY <3>2, <4>1, <4>3
      <4> QED
        BY <3>3, <4>2, <4>3 DEF StashInv, Locked
    <3> QED
      BY <1>7, <3>4, <3>5
  <2>4. Sound(l, r)'
    BY <2>1 DEF Sound, SitePcs
  <2> QED
    BY <1>1, <1>4, <1>5, <2>1, <2>2, <2>3, <2>4, SKept
<1> QED
  BY <1>6, <1>7

\* The holder of the lock takes confs out of the stash, and puts none in.
LEMMA StashTaken ==
    ASSUME IInv, SInv, NEW p \in Procs, NEW l, NEW r, pc'[p] = l, loc'[p] = r, Others(p), Worse,
           lock \in {None, p},
           \A h \in Hosts : stash'[h] \in {stash[h], None} /\ (conf'[h] = None \/ stash'[h] = None),
           pc[p] \in {"cert_request", "bulk"} => \A h \in Hosts \cap DOMAIN loc[p].snap : stash'[h] = None,
           l \in {"generate", "verify"} => stash'[r.host] = None,
           l \in {"bulk_generate", "bulk_test", "bulk_each"} =>
              \A h \in Hosts \cap DOMAIN r.snap : stash'[h] = None
    PROVE  StashInv'
<1>1. NoneClean => NoneClean'
  BY DEF NoneClean, Clean, Worse
<1>2. ASSUME NEW h \in Hosts, stash'[h] # None, ~NoneClean
      PROVE  \E q \in Procs : pc'[q] \in {"cert_request", "bulk"} /\ h \in DOMAIN loc'[q].snap
  <2>1. stash[h] # None
    BY <1>2
  <2>2. PICK q \in Procs : pc[q] \in {"cert_request", "bulk"} /\ h \in DOMAIN loc[q].snap
    BY <1>2, <2>1 DEF SInv, StashInv
  <2>3. q # p
    BY <1>2, <2>2
  <2> QED
    BY <2>2, <2>3 DEF Others
<1>3. ASSUME NEW q \in Procs, q # p PROVE pc'[q] \notin Locked
  BY <1>3, HostAssumption DEF IInv, LockOK, Others, HostAssumption
<1>4. ASSUME NEW q \in Procs
      PROVE  /\ pc'[q] \in {"generate", "verify"} => stash'[loc'[q].host] = None
             /\ pc'[q] \in {"bulk_generate", "bulk_test", "bulk_each"} =>
                   \A h \in Hosts \cap DOMAIN loc'[q].snap : stash'[h] = None
  BY <1>3 DEF Locked
<1> QED
  BY <1>1, <1>2, <1>4 DEF StashInv

\* nginx -t looks at the confs of hosts only.
LEMMA TestSame ==
    ASSUME NEW c, NEW d, NEW s, \A h \in Hosts : d[h] = c[h]
    PROVE  test(c, s) <=> test(d, s)
BY DEF test

\* configure: from the test to the verdict.
LEMMA SConfigured ==
    ASSUME IInv, RInv, SInv, NEW p \in Procs,
           ConfigureBackup(p) \/ ConfigureDelete(p) \/ ConfigureGenerate(p) \/ ConfigureVerify(p)
    PROVE  SInv'
<1> USE DEF Worse, Told, history, Keep, KeepSite, KeepDb, files
<1>1. PICK k, h : k = loc[p] /\ h = k.host
  OBVIOUS
<1>2. /\ DOMAIN pc = Procs /\ DOMAIN loc = Procs /\ DOMAIN conf = Hosts /\ DOMAIN stash = Hosts
      /\ DOMAIN k = LocFields /\ KindOK(pc[p], k)
  BY <1>1 DEF IInv, ShapeOK, RInv, KindsOK
<1>3. /\ pc[p] \in {"backup", "clear", "generate", "verify"} /\ lock' = lock /\ site' = site /\ type' = type
      /\ Worse
  BY DEF ConfigureBackup, ConfigureDelete, ConfigureGenerate, ConfigureVerify
<1>4. lock = p /\ ~Free' /\ h \in Hosts
  BY <1>1, <1>2, <1>3, HostAssumption DEF IInv, LockOK, Locked, Free, KindOK, HostPcs, HostAssumption
<1>5. ASSUME NEW l \in {"clear", "generate", "verify", "activate"}, NEW r, pc' = [pc EXCEPT ![p] = l],
             loc'[p] = r, \A q \in Procs \ {p} : loc'[q] = loc[q], r.host = h,
             \A g \in Hosts : stash'[g] \in {stash[g], None} /\ (conf'[g] = None \/ stash'[g] = None),
             l \in {"generate", "verify"} => stash'[h] = None,
             l \in {"clear", "generate", "verify"} =>
                test(PutBack(conf, bak, r.had, {h}), site)' \/ NoneClean \/ Taking,
             l = "activate" => test(conf, site)' \/ NoneClean \/ Taking
      PROVE  SInv'
  <2>1. pc'[p] = l /\ loc'[p] = r /\ Others(p)
    BY <1>2, <1>5 DEF Others
  <2>2. StashInv'
    BY <1>3, <1>4, <1>5, <2>1, StashTaken
  <2>3. (NoneClean => NoneClean') /\ (Taking => Taking')
    BY <1>3, <2>1 DEF NoneClean, Clean, Taking, Others
  <2>4. Sound(l, r)'
    BY <1>5, <2>3 DEF Sound, SitePcs
  <2> QED
    BY <1>3, <1>4, <2>1, <2>2, <2>4, SKept
<1>6. ASSUME NEW g \in Hosts PROVE conf[g] = None \/ stash[g] = None
  BY DEF SInv, StashInv
<1>7. CASE ConfigureBackup(p)
  <2>1. PICK r : r = [k EXCEPT !.had = Had({h})]
    OBVIOUS
  <2>2. /\ pc[p] = "backup" /\ backupConfig({h}) /\ loc' = [loc EXCEPT ![p] = r]
        /\ pc' = [pc EXCEPT ![p] = "clear"] /\ conf' = conf
    BY <1>1, <1>7, <2>1 DEF ConfigureBackup, Set, Goto
  <2>3. r.host = h /\ r.had = Had({h})
    BY <1>1, <1>2, <2>1 DEF LocFields
  <2>4. \A g \in Hosts : stash'[g] \in {stash[g], None}
    BY <2>2 DEF backupConfig
  <2>5. test(conf, site)
    BY <2>2 DEF SInv, Sound
  <2>6. test(PutBack(conf, bak, r.had, {h}), site)' \/ NoneClean \/ Taking
    <3>1. CASE stash[h] # None
      BY <1>4, <3>1 DEF SInv, StashInv, Taking
    <3>2. CASE stash[h] = None
      <4>1. PICK d : d = PutBack(conf, bak, r.had, {h})'
        OBVIOUS
      <4>2. ASSUME NEW g \in Hosts PROVE d[g] = conf[g]
        BY <2>2, <2>3, <3>2, <4>1 DEF PutBack, backupConfig, Had
      <4>3. test(d, site)
        BY <2>5, <4>2, TestSame
      <4> QED
        BY <1>3, <4>1, <4>3 DEF test
    <3> QED
      BY <3>1, <3>2
  <2> QED
    BY <1>2, <1>5, <1>6, <2>2, <2>3, <2>4, <2>6
<1>8. CASE ConfigureDelete(p) \/ ConfigureGenerate(p)
  <2>1. PICK l \in {"generate", "verify"} : pc' = [pc EXCEPT ![p] = l]
    BY <1>8 DEF ConfigureDelete, ConfigureGenerate, Goto
  <2>2. /\ loc' = loc /\ bak' = bak /\ pc[p] \in {"clear", "generate"}
        /\ \A g \in Hosts \ {h} : conf'[g] = conf[g] /\ stash'[g] = stash[g]
        /\ stash'[h] = None
    <3>1. CASE ConfigureDelete(p)
      BY <1>1, <1>2, <1>4, <3>1 DEF ConfigureDelete
    <3>2. CASE ConfigureGenerate(p)
      <4>1. pc[p] = "generate" /\ stash[h] = None
        BY <1>1, <3>2 DEF ConfigureGenerate, SInv, StashInv
      <4> QED
        BY <1>1, <1>2, <3>2, <4>1 DEF ConfigureGenerate
    <3> QED
      BY <1>8, <3>1, <3>2
  <2>3. test(PutBack(conf, bak, k.had, {h}), site) \/ NoneClean \/ Taking
    BY <1>1, <2>2 DEF SInv, Sound
  <2>4. test(PutBack(conf, bak, k.had, {h}), site)' <=> test(PutBack(conf, bak, k.had, {h}), site)
    <3>1. PICK d : d = PutBack(conf, bak, k.had, {h})'
      OBVIOUS
    <3>2. \A g \in Hosts : d[g] = PutBack(conf, bak, k.had, {h})[g]
      BY <2>2, <3>1 DEF PutBack
    <3>3. test(d, site) <=> test(PutBack(conf, bak, k.had, {h}), site)
      BY <3>2, TestSame
    <3>4. test(d, site) <=> test(PutBack(conf, bak, k.had, {h}), site)'
      BY <1>3, <3>1 DEF test
    <3> QED
      BY <3>3, <3>4
  <2>5. \A g \in Hosts : stash'[g] \in {stash[g], None} /\ (conf'[g] = None \/ stash'[g] = None)
    BY <1>6, <2>2
  <2> QED
    BY <1>1, <1>5, <2>1, <2>2, <2>3, <2>4, <2>5
<1>9. CASE ConfigureVerify(p)
  <2>1. /\ pc[p] = "verify" /\ pc' = [pc EXCEPT ![p] = "activate"] /\ loc' = loc /\ stash' = stash
        /\ stash[h] = None
    BY <1>1, <1>9 DEF ConfigureVerify, Goto, SInv, StashInv
  <2>2. test(conf, site)' \/ NoneClean \/ Taking
    <3>1. CASE test(conf, site)
      BY <1>3, <1>9, <3>1 DEF ConfigureVerify, test
    <3>2. CASE ~test(conf, site)
      <4>1. conf' = restoreConfigBackup(h, h \in k.had)
        BY <1>1, <1>9, <3>2 DEF ConfigureVerify
      <4>2. test(PutBack(conf, bak, k.had, {h}), site) \/ NoneClean \/ Taking
        BY <1>1, <2>1 DEF SInv, Sound
      <4>3. PICK d : d = conf'
        OBVIOUS
      <4>4. \A g \in Hosts : d[g] = PutBack(conf, bak, k.had, {h})[g]
        BY <1>2, <4>1, <4>3 DEF PutBack, restoreConfigBackup
      <4>5. test(d, site) <=> test(PutBack(conf, bak, k.had, {h}), site)
        BY <4>4, TestSame
      <4> QED
        BY <1>3, <4>2, <4>3, <4>5 DEF test
    <3> QED
      BY <3>1, <3>2
  <2>3. \A g \in Hosts \ {h} : conf'[g] = conf[g]
    BY <1>1, <1>2, <1>9 DEF ConfigureVerify, restoreConfigBackup
  <2>4. \A g \in Hosts : stash'[g] \in {stash[g], None} /\ (conf'[g] = None \/ stash'[g] = None)
    BY <1>6, <2>1, <2>3
  <2> QED
    BY <1>1, <1>5, <2>1, <2>2, <2>4
<1> QED
  BY <1>7, <1>8, <1>9

\* Rendering fails: nginx -t says of the live set what it said before the backup.
LEMMA SRenderFailed ==
    ASSUME IInv, RInv, SInv, NEW p \in Procs, ConfigureRenderFails(p)
    PROVE  SInv'
<1>1. PICK k, h : k = loc[p] /\ h = k.host
  OBVIOUS
<1>2. /\ pc[p] = "generate" /\ Done(p) /\ Refuse(p) /\ UNCHANGED <<stash, site, type>>
      /\ conf' = restoreConfigBackup(h, h \in k.had)
  BY <1>1 DEF ConfigureRenderFails, KeepSite, Keep
<1>3. pc'[p] = "idle" /\ loc'[p] = Idle /\ Others(p) /\ Worse /\ DOMAIN conf = Hosts /\ lock = p
  BY <1>2 DEF IInv, ShapeOK, LockOK, Locked, Done, Goto, Others, Refuse, Worse
<1>4. \A g \in Hosts \ {h} : conf'[g] = conf[g]
  BY <1>2, <1>3 DEF restoreConfigBackup
<1>5. stash[h] = None /\ \A g \in Hosts : conf[g] = None \/ stash[g] = None
  BY <1>1, <1>2 DEF SInv, StashInv
<1>6. StashInv'
  BY <1>2, <1>3, <1>4, <1>5, StashTaken
<1>7. test(conf, site)' \/ NoneClean \/ Taking
  <2>1. test(PutBack(conf, bak, k.had, {h}), site) \/ NoneClean \/ Taking
    BY <1>1, <1>2 DEF SInv, Sound
  <2>2. PICK d : d = conf'
    OBVIOUS
  <2>3. \A g \in Hosts : d[g] = PutBack(conf, bak, k.had, {h})[g]
    BY <1>2, <1>3, <2>2 DEF PutBack, restoreConfigBackup
  <2>4. test(d, site) <=> test(PutBack(conf, bak, k.had, {h}), site)
    BY <2>3, TestSame
  <2> QED
    BY <1>2, <2>1, <2>2, <2>4 DEF test
<1>8. Sound("idle", Idle)'
  BY DEF Sound, SitePcs
<1> QED
  BY <1>2, <1>3, <1>6, <1>7, <1>8, SKept

\* A batch: the rest of it tries each host alone in a live set that passes.
LEMMA SBatched ==
    ASSUME IInv, RInv, SInv, NEW p \in Procs,
           BulkBackup(p) \/ BulkGenerate(p) \/ BulkTest(p) \/ BulkEach(p) \/ BulkEnd(p)
    PROVE  SInv'
<1> USE DEF Worse, Told, history, Keep, KeepSite, KeepDb, files
<1>1. PICK k, B : k = loc[p] /\ B = DOMAIN k.snap
  OBVIOUS
<1>2. /\ DOMAIN pc = Procs /\ DOMAIN loc = Procs /\ DOMAIN conf = Hosts /\ DOMAIN stash = Hosts
      /\ DOMAIN k = LocFields /\ KindOK(pc[p], k) /\ Under(pc[p], k)
  BY <1>1 DEF IInv, ShapeOK, RInv, KindsOK
<1>3. /\ pc[p] \in BulkPcs /\ site' = site /\ type' = type /\ Worse
  BY DEF BulkBackup, BulkGenerate, BulkTest, BulkEach, BulkEnd, BulkPcs, Refuse
<1>4. Touches(k) = Hosts
  BY <1>1, <1>3, OnAll
<1>5. lock \in {None, p}
  BY <1>3 DEF BulkBackup, BulkPcs, IInv, LockOK, Locked, BulkGenerate, BulkTest, BulkEach, BulkEnd, Free
<1>6. ASSUME NEW g \in Hosts PROVE conf[g] = None \/ stash[g] = None
  BY DEF SInv, StashInv
<1>7. ASSUME NEW l, NEW r, pc' = [pc EXCEPT ![p] = l], loc'[p] = r,
             \A q \in Procs \ {p} : loc'[q] = loc[q], DOMAIN r.snap = B \/ l = "idle",
             \A g \in Hosts : stash'[g] \in {stash[g], None} /\ (conf'[g] = None \/ stash'[g] = None),
             pc[p] = "bulk" \/ l \in {"bulk_generate", "bulk_test", "bulk_each"} =>
                \A g \in Hosts \cap B : stash'[g] = None,
             l \in {"bulk_generate", "bulk_test", "reload", "idle"} \/ test(conf, site)' \/ NoneClean',
             l \in {"bulk_generate", "bulk_test", "reload", "idle", "bulk_each", "bulk_end", "cert_done"},
             l \in {"bulk_each", "bulk_end"} => test(conf, site)'
      PROVE  SInv'
  <2>1. pc'[p] = l /\ loc'[p] = r /\ Others(p)
    BY <1>2, <1>7 DEF Others
  <2>2. StashInv'
    BY <1>1, <1>3, <1>5, <1>7, <2>1, StashTaken DEF BulkPcs
  <2>3. Sound(l, r)'
    BY <1>7 DEF Sound, SitePcs
  <2> QED
    BY <1>1, <1>3, <1>4, <1>5, <2>1, <2>2, <2>3, SKept
<1>8. CASE BulkBackup(p)
  <2>1. PICK r : r = [k EXCEPT !.had = Had(B)]
    OBVIOUS
  <2>2. /\ backupConfig(B) /\ loc' = [loc EXCEPT ![p] = r]
        /\ pc' = [pc EXCEPT ![p] = "bulk_generate"] /\ conf' = conf
    BY <1>1, <1>8, <2>1 DEF BulkBackup, Batch, Set, Goto
  <2>3. DOMAIN r.snap = B
    BY <1>1, <1>2, <2>1 DEF LocFields
  <2>4. \A g \in Hosts : stash'[g] = IF g \in B /\ conf[g] = None THEN None ELSE stash[g]
    BY <2>2 DEF backupConfig
  <2> QED
    BY <1>2, <1>6, <1>7, <2>2, <2>3, <2>4
<1>9. CASE BulkGenerate(p)
  <2>1. /\ pc[p] = "bulk_generate" /\ loc' = loc /\ pc' = [pc EXCEPT ![p] = "bulk_test"] /\ stash' = stash
        /\ \A g \in Hosts \ B : conf'[g] = conf[g]
    BY <1>1, <1>9 DEF BulkGenerate, Batch, Goto
  <2>2. \A g \in Hosts \cap B : stash[g] = None
    BY <1>1, <2>1 DEF SInv, StashInv
  <2> QED
    BY <1>1, <1>6, <1>7, <2>1, <2>2
<1>10. CASE BulkTest(p)
  <2>1. /\ pc[p] = "bulk_test" /\ stash' = stash /\ \A g \in Hosts \cap B : stash[g] = None
    BY <1>1, <1>10 DEF BulkTest, SInv, StashInv
  <2>2. \A g \in Hosts \ B : conf'[g] = conf[g]
    <3>1. \A g \in Hosts \ B : putBack(p, B)[g] = conf[g]
      BY DEF putBack
    <3> QED
      BY <1>1, <1>10, <3>1 DEF BulkTest, Batch
  <2>3. \A g \in Hosts : stash'[g] \in {stash[g], None} /\ (conf'[g] = None \/ stash'[g] = None)
    BY <1>6, <2>1, <2>2
  <2>4. CASE test(conf, site)
    <3>1. conf' = conf /\ AfterBulk(p, TRUE)
      BY <1>10, <2>4 DEF BulkTest
    <3>2. test(conf, site)'
      BY <1>3, <2>4, <3>1 DEF test
    <3>3. PICK l \in {"cert_done", "reload"} : Goto(p, l) /\ loc' = loc
      BY <3>1 DEF AfterBulk
    <3> QED
      BY <1>1, <1>7, <2>1, <2>3, <3>2, <3>3 DEF Goto
  <2>5. CASE ~test(conf, site) /\ test(putBack(p, B), site)
    <3>1. PICK r : r = [k EXCEPT !.left = B]
      OBVIOUS
    <3>2. conf' = putBack(p, B) /\ loc' = [loc EXCEPT ![p] = r] /\ pc' = [pc EXCEPT ![p] = "bulk_each"]
      BY <1>1, <1>10, <2>5, <3>1 DEF BulkTest, Batch, Set, Goto
    <3>3. DOMAIN r.snap = B
      BY <1>1, <1>2, <3>1 DEF LocFields
    <3>4. test(conf, site)'
      BY <1>3, <2>5, <3>2 DEF test
    <3> QED
      BY <1>2, <1>7, <2>1, <2>3, <3>2, <3>3, <3>4
  <2>6. CASE ~test(conf, site) /\ ~test(putBack(p, B), site)
    <3>1. AfterBulk(p, FALSE) /\ Refuse(p)
      BY <1>1, <1>10, <2>6 DEF BulkTest, Batch
    <3>2. NoneClean'
      BY <1>1, <1>4, <3>1 DEF Refuse, NoneClean, Clean
    <3>3. PICK l \in {"cert_done", "idle"} : pc' = [pc EXCEPT ![p] = l] /\ (l = "cert_done" => loc' = loc)
                                            /\ (l = "idle" => loc' = [loc EXCEPT ![p] = Idle])
      BY <3>1 DEF AfterBulk, Goto, Done
    <3>4. PICK r : r = loc'[p]
      OBVIOUS
    <3>5. (\A q \in Procs \ {p} : loc'[q] = loc[q]) /\ (l = "cert_done" => r = k)
      BY <1>1, <1>2, <3>3, <3>4
    <3> QED
      BY <1>1, <1>7, <2>1, <2>3, <3>2, <3>3, <3>4, <3>5
  <2> QED
    BY <2>4, <2>5, <2>6
<1>11. CASE BulkEach(p)
  <2>1. /\ pc[p] = "bulk_each" /\ stash' = stash /\ \A g \in Hosts \cap B : stash[g] = None
        /\ test(conf, site)
    BY <1>1, <1>11 DEF BulkEach, SInv, StashInv, Sound
  <2>2. PICK h \in k.left :
           LET new == [conf EXCEPT ![h] = generateConfig(k.snap[h])] IN
           /\ conf' = IF test(new, site) THEN new ELSE putBack(p, {h})
           /\ loc' = [loc EXCEPT ![p].left = @ \ {h},
                                 ![p].bad = IF test(new, site) THEN @ ELSE @ \cup {h}]
           /\ pc' = [pc EXCEPT ![p] = IF k.left = {h} THEN "bulk_end" ELSE "bulk_each"]
    BY <1>1, <1>11 DEF BulkEach, Goto
  <2>3. PICK new : new = [conf EXCEPT ![h] = generateConfig(k.snap[h])]
    OBVIOUS
  <2>4. PICK r : r = [k EXCEPT !.left = @ \ {h}, !.bad = IF test(new, site) THEN @ ELSE @ \cup {h}]
    OBVIOUS
  <2>5. PICK l \in {"bulk_each", "bulk_end"} : pc' = [pc EXCEPT ![p] = l]
    BY <2>2
  <2>6. loc' = [loc EXCEPT ![p] = r] /\ DOMAIN r.snap = B
    BY <1>1, <1>2, <2>2, <2>3, <2>4 DEF LocFields
  <2>7. h \in B
    BY <1>1, <1>2, <2>1, <2>2 DEF KindOK
  <2>8. test(conf, site)' /\ \A g \in Hosts \ {h} : conf'[g] = conf[g]
    <3>1. CASE test(new, site)
      <4>1. conf' = new
        BY <2>2, <2>3, <3>1
      <4> QED
        BY <1>2, <1>3, <2>3, <3>1, <4>1 DEF test
    <3>2. CASE ~test(new, site)
      <4>1. conf' = putBack(p, {h})
        BY <2>2, <2>3, <3>2
      <4>2. h \in Hosts => conf[h] = IF h \in k.had THEN bak[h] ELSE None
        BY <1>2, <2>1, <2>2 DEF Under
      <4>3. PICK d : d = conf'
        OBVIOUS
      <4>4. \A g \in Hosts : d[g] = conf[g]
        BY <1>1, <4>1, <4>2, <4>3 DEF putBack
      <4>5. test(d, site)
        BY <2>1, <4>4, TestSame
      <4> QED
        BY <1>3, <4>3, <4>4, <4>5 DEF test
    <3> QED
      BY <3>1, <3>2
  <2>9. \A g \in Hosts : stash'[g] \in {stash[g], None} /\ (conf'[g] = None \/ stash'[g] = None)
    BY <1>6, <2>1, <2>7, <2>8
  <2> QED
    BY <1>2, <1>7, <2>1, <2>5, <2>6, <2>8, <2>9
<1>12. CASE BulkEnd(p)
  <2>1. /\ pc[p] = "bulk_end" /\ UNCHANGED <<conf, stash>> /\ AfterBulk(p, k.bad = {}) /\ test(conf, site)
    BY <1>1, <1>12 DEF BulkEnd, SInv, Sound
  <2>2. test(conf, site)'
    BY <1>3, <2>1 DEF test
  <2>3. PICK l \in {"cert_done", "reload", "idle"} :
           pc' = [pc EXCEPT ![p] = l] /\ (l # "idle" => loc' = loc) /\ (l = "idle" => loc' = [loc EXCEPT ![p] = Idle])
    BY <2>1 DEF AfterBulk, Goto, Done
  <2>4. PICK r : r = loc'[p]
    OBVIOUS
  <2>5. (\A q \in Procs \ {p} : loc'[q] = loc[q]) /\ (l # "idle" => r = k)
    BY <1>1, <1>2, <2>3, <2>4
  <2> QED
    BY <1>1, <1>6, <1>7, <2>1, <2>2, <2>3, <2>4, <2>5
<1> QED
  BY <1>8, <1>9, <1>10, <1>11, <1>12

\* A restart that leaves stashed confs behind was a failure for every host.
LEMMA SRestarted == ASSUME IInv, RInv, SInv, Restart PROVE SInv'
<1>1. /\ pc' = [p \in Procs |-> "idle"] /\ loc' = [p \in Procs |-> Idle]
      /\ UNCHANGED <<conf, stash, raced>>
  BY DEF Restart, files
<1>2. /\ refused \subseteq refused' \/ Hosts \subseteq refused'
      /\ \A p \in Procs : \A h \in Hosts \cap Touches(loc[p]) : h \in refused'
  BY DEF Restart
<1>3. ASSUME NEW h \in Hosts, stash[h] # None PROVE NoneClean'
  <2>1. CASE NoneClean
    BY <1>1, <1>2, <2>1 DEF NoneClean, Clean
  <2>2. CASE ~NoneClean
    <3>1. PICK q \in Procs : pc[q] \in {"cert_request", "bulk"}
      BY <1>3, <2>2 DEF SInv, StashInv
    <3>2. Touches(loc[q]) = Hosts
      BY <3>1, OnAll DEF CertPcs, BulkPcs
    <3> QED
      BY <1>2, <3>2 DEF NoneClean, Clean
  <2> QED
    BY <2>1, <2>2
<1>4. StashInv'
  BY <1>1, <1>3 DEF SInv, StashInv
<1>5. ASSUME NEW p \in Procs PROVE Sound(pc[p], loc[p])'
  BY <1>1 DEF Sound, SitePcs
<1> QED
  BY <1>4, <1>5 DEF SInv

LEMMA SInitially == Init => SInv
<1> SUFFICES ASSUME Init PROVE SInv
  OBVIOUS
<1>1. \A p \in Procs : pc[p] = "idle"
  BY DEF Init
<1>2. \A h \in Hosts : stash[h] = None
  BY DEF Init
<1>3. StashInv
  BY <1>1, <1>2 DEF StashInv
<1>4. \A p \in Procs : Sound(pc[p], loc[p])
  BY <1>1 DEF Sound, SitePcs
<1> QED
  BY <1>3, <1>4 DEF SInv

LEMMA SInductive == IInv /\ RInv /\ SInv /\ [Next]_vars => SInv'
<1> SUFFICES ASSUME IInv, RInv, SInv, [Next]_vars PROVE SInv'
  OBVIOUS
<1>1. ASSUME NEW p \in Procs, Receive(p) \/ Step(p) PROVE SInv'
  BY <1>1, SHandled, STakenOut, SConfigured, SRenderFailed, SBatched DEF Step
<1>2. CASE Restart
  BY <1>2, SRestarted
<1>3. CASE UNCHANGED vars
  <2>1. UNCHANGED <<type, conf, bak, stash, site, lock, pc, loc, raced, refused>>
    BY <1>3 DEF vars, files, history
  <2>2. NoneClean' <=> NoneClean
    BY <2>1 DEF NoneClean, Clean
  <2>3. StashInv'
    BY <2>1, <2>2 DEF SInv, StashInv
  <2>4. ASSUME NEW p \in Procs PROVE Sound(pc[p], loc[p])'
    <3>1. Sound(pc[p], loc[p])
      BY DEF SInv
    <3>2. (Taking' <=> Taking) /\ (Free' <=> Free)
      BY <2>1 DEF Taking, Free
    <3> QED
      BY <2>1, <2>2, <3>1, <3>2 DEF Sound, test, PutBack
  <2> QED
    BY <2>3, <2>4 DEF SInv
<1> QED
  BY <1>1, <1>2, <1>3 DEF Next

\* What the row of s, read with its relations, says of the conf c.
Says(s, c) ==
    /\ s.row.alive = "live" /\ s.row.enabled =>
          /\ s.row.meta = "ok" => c = generateConfig(s)
          /\ s.row.meta = "kept" => c # None
          /\ s.row.meta = "off" => ~Serving(c)
    /\ ~(s.row.alive = "live" /\ s.row.enabled) => ~Serving(c)
\* Whatever else it says: a host that is off is not served.
Stopped(h, c) == ~(Live(h) /\ row[h].enabled) => ~Serving(c)
Truth(h) == Says(Fetched(h), conf[h]) /\ Says(Fetched(h), running[h])

\* What was read of the host would be read again.
Current(r, h) ==
    h \in DOMAIN r.snap => /\ Live(h) /\ r.snap[h].row = row[h]
                           /\ row[h].acl => r.snap[h].rules = Fetched(h).rules

\* Where the rows are true already: before a request has changed anything of the host,
\* or when it does not work on its conf.
Whole(l, r, h) ==
    \/ l \in {"get", "patch", "cert_find", "cert_stash", "list_clear", "list_get", "list_drop",
              "site_delete", "site_generate", "site_reload", "site_undo"}
    \/ l \in {"fetch"} \cup ConfigurePcs /\ h # r.host
    \/ l \in {"list_fill", "list_fetch"} /\ h \notin Users
    \/ l \in {"list_build", "list_detach", "cert_request"} \cup BulkPcs /\ h \notin DOMAIN r.snap
\* Where a conf will be rendered from what was read.
Reading == {"configure", "backup", "clear", "generate", "verify",
            "list_build", "cert_stash", "cert_request"} \cup BulkPcs
\* Where the previous conf is still in place.
Previous(l, r, h) ==
    \/ l \in {"fetch", "configure", "backup"} /\ h = r.host
    \/ l \in {"list_fill", "list_fetch", "list_build", "list_detach", "cert_request", "bulk"}
\* Where it is in the backup.
Backed(l, r, h) ==
    \/ l \in {"clear", "generate", "verify"} /\ h = r.host
    \/ l \in {"bulk_generate", "bulk_test", "bulk_each", "bulk_end"} /\ h \in DOMAIN r.snap
\* Where the new conf is in place.
Settling(l, r, h) == l \in {"reload", "cert_done"} \/ (l = "activate" /\ h = r.host)

\* What a request that renders its copies without the access list has read.
Detached(r, h) ==
    /\ h \in DOMAIN r.snap => Live(h) /\ r.snap[h].row = [row[h] EXCEPT !.acl = FALSE]
    /\ h \in Users => h \in DOMAIN r.snap

\* What holds of a host while the one request that works on it is at l.
Honest(l, r, h) ==
    /\ stash[h] # None => /\ l \in {"cert_request", "bulk"} /\ h \in DOMAIN r.snap
                          /\ Stopped(h, stash[h])
    /\ Whole(l, r, h) => Truth(h)
    /\ l \in Reading => Current(r, h)
    /\ l = "patch" /\ r.kind = "enable" => r.snap[h] = Fetched(h) /\ Live(h)
    /\ l \in {"list_drop", "list_detach"} => Detached(r, h)
    /\ l \in {"list_clear", "list_fill", "list_fetch"} => listed
    /\ Previous(l, r, h) => Stopped(h, conf[h])
    /\ l = "fetch" => Stopped(h, running[h])
    /\ Backed(l, r, h) /\ h \in r.had => bak[h] # None /\ Stopped(h, bak[h])
    /\ l \in {"bulk_each", "bulk_end"} /\ h \in r.bad => conf[h] = IF h \in r.had THEN bak[h] ELSE None
    /\ Settling(l, r, h) => Says(Fetched(h), conf[h])
    /\ l = "cert_done" /\ h \notin DOMAIN r.snap => Says(Fetched(h), running[h])

\* Only proxy hosts have an access list; which hosts a batch has found bad so far.
ReqOK(l, r) ==
    /\ l = "idle" => r = Idle
    /\ r.kind \in {"create", "update"} /\ r.acl => type[r.host] = "proxy_host"
    /\ l \in {"get", "cert_find", "cert_stash", "cert_request", "bulk", "bulk_generate", "bulk_test"} \cup ListPcs =>
          r.bad = {}
    /\ l = "patch" /\ r.kind = "create" => r.bad = {}
    /\ l = "bulk_each" => r.bad \cap r.left = {}
    /\ l \in {"bulk_each", "bulk_end"} => r.bad \subseteq DOMAIN r.snap

TInv ==
    /\ \A h \in Hosts : row[h].acl => type[h] = "proxy_host"
    /\ \A p \in Procs : ReqOK(pc[p], loc[p])
    /\ \A p \in Procs : \A h \in Hosts \cap Touches(loc[p]) : Clean(h) => Honest(pc[p], loc[p], h)
    /\ \A h \in Hosts : Clean(h) /\ Untouched(h) => Truth(h) /\ stash[h] = None

\* Nothing changes for the host, except that nginx may have loaded its conf.
Like(h) ==
    /\ Same(h) /\ UNCHANGED <<type, rules, listed>>
    /\ running'[h] \in {running[h], conf[h]}

\* What a row says includes that a host that is off is not served.
LEMMA SaysStops ==
    ASSUME NEW h, NEW c, Says(Fetched(h), c)
    PROVE  Stopped(h, c)
BY DEF Says, Stopped, Fetched, Live

LEMMA SaysOff ==
    ASSUME NEW h, NEW c, Stopped(h, c), ~(Live(h) /\ row[h].enabled)
    PROVE  Says(Fetched(h), c)
BY DEF Says, Stopped, Fetched, Live

LEMMA StoppedNone == ASSUME NEW h PROVE Stopped(h, None)
BY Nothing DEF Stopped

LEMMA LikeFetched == ASSUME NEW h, Like(h) PROVE Fetched(h)' = Fetched(h)
BY DEF Like, Same, Fetched

LEMMA TruthStays ==
    ASSUME NEW h, Truth(h), UNCHANGED <<rules, listed>>, row'[h] = row[h], conf'[h] = conf[h],
           running'[h] \in {running[h], conf[h]}
    PROVE  Truth(h)'
<1>1. PICK s : s = Fetched(h)
  OBVIOUS
<1>2. Fetched(h)' = s
  BY <1>1 DEF Fetched
<1>3. Says(s, conf[h]) /\ Says(s, running[h])
  BY <1>1 DEF Truth
<1>4. Says(s, conf'[h]) /\ Says(s, running'[h])
  BY <1>3
<1>5. Says(s, conf[h])' /\ Says(s, running[h])'
  BY <1>4 DEF Says, generateConfig, Serving
<1> QED
  BY <1>2, <1>5 DEF Truth

LEMMA TruthLike == ASSUME NEW h, Truth(h), Like(h) PROVE Truth(h)'
BY TruthStays DEF Like, Same

\* Then the request that works on the host goes on undisturbed.
LEMMA HonestLike ==
    ASSUME NEW l, NEW r, NEW h, Honest(l, r, h), Like(h)
    PROVE  Honest(l, r, h)'
<1>1. /\ row'[h] = row[h] /\ conf'[h] = conf[h] /\ bak'[h] = bak[h] /\ stash'[h] = stash[h]
      /\ listed' = listed /\ type' = type /\ running'[h] \in {running[h], conf[h]}
  BY DEF Like, Same
<1>2. Fetched(h)' = Fetched(h)
  BY LikeFetched
<1>3. (Live(h)' <=> Live(h)) /\ (h \in Users' <=> h \in Users) /\ \A c : Stopped(h, c)' <=> Stopped(h, c)
  BY <1>1 DEF Live, Users, Stopped, Serving
<1>4. (Whole(l, r, h)' <=> Whole(l, r, h)) /\ (Previous(l, r, h)' <=> Previous(l, r, h))
      /\ (Backed(l, r, h)' <=> Backed(l, r, h)) /\ (Settling(l, r, h)' <=> Settling(l, r, h))
  BY <1>3 DEF Whole, Previous, Backed, Settling
<1>5. Whole(l, r, h)' => Truth(h)'
  BY <1>4, TruthLike DEF Honest
<1>6. stash'[h] # None => /\ l \in {"cert_request", "bulk"} /\ h \in DOMAIN r.snap
                          /\ Stopped(h, stash[h])'
  BY <1>1, <1>3 DEF Honest
<1>7. l \in Reading => Current(r, h)'
  BY <1>1, <1>2, <1>3 DEF Honest, Current
<1>8. /\ l = "patch" /\ r.kind = "enable" => r.snap[h] = Fetched(h)' /\ Live(h)'
      /\ l \in {"list_drop", "list_detach"} => Detached(r, h)'
      /\ l \in {"list_clear", "list_fill", "list_fetch"} => listed'
  BY <1>1, <1>2, <1>3 DEF Honest, Detached
<1>9. Previous(l, r, h)' => Stopped(h, conf[h])'
  BY <1>1, <1>3, <1>4 DEF Honest
<1>10. l = "fetch" => Stopped(h, running[h])'
  <2> SUFFICES ASSUME l = "fetch" PROVE Stopped(h, running'[h])
    BY <1>3
  <2>1. Stopped(h, conf[h])
    <3>1. CASE h = r.host
      BY <3>1 DEF Honest, Previous
    <3>2. CASE h # r.host
      BY <3>2, SaysStops DEF Honest, Whole, Truth
    <3> QED
      BY <3>1, <3>2
  <2> QED
    BY <1>1, <2>1 DEF Honest
<1>11. Backed(l, r, h)' /\ h \in r.had => bak'[h] # None /\ Stopped(h, bak[h])'
  BY <1>1, <1>3, <1>4 DEF Honest
<1>12. l \in {"bulk_each", "bulk_end"} /\ h \in r.bad => conf'[h] = IF h \in r.had THEN bak'[h] ELSE None
  BY <1>1 DEF Honest
<1>13. \A c : Says(Fetched(h), c) => Says(Fetched(h), c)'
  BY <1>2 DEF Says, generateConfig, Serving
<1>14. Settling(l, r, h)' => Says(Fetched(h), conf[h])'
  BY <1>1, <1>4, <1>13 DEF Honest
<1>15. l = "cert_done" /\ h \notin DOMAIN r.snap => Says(Fetched(h), running[h])'
  BY <1>1, <1>13 DEF Honest, Settling
<1> QED
  BY <1>5, <1>6, <1>7, <1>8, <1>9, <1>10, <1>11, <1>12, <1>14, <1>15 DEF Honest

\* A step of one request keeps the invariant if it keeps it for the hosts it works on.
LEMMA TKept ==
    ASSUME RInv, TInv, NEW p \in Procs, NEW l, NEW r, pc'[p] = l, loc'[p] = r, Others(p), Worse, type' = type,
           \A h \in Hosts : row'[h].acl => type[h] = "proxy_host", ReqOK(l, r),
           Touches(r) \subseteq Touches(loc[p]),
           \A h \in Hosts \ Touches(loc[p]) : Like(h),
           \A h \in Hosts \cap Touches(r) : Clean(h)' => Honest(l, r, h)',
           \A h \in Hosts \ Touches(r) :
              h \in Touches(loc[p]) /\ Clean(h)' => Truth(h)' /\ stash'[h] = None
    PROVE  TInv'
<1>0. \A h : Clean(h)' => Clean(h)
  BY DEF Clean, Worse
<1>1. ASSUME NEW q \in Procs PROVE ReqOK(pc[q], loc[q])'
  <2>1. PICK k, s : k = pc'[q] /\ s = loc'[q]
    OBVIOUS
  <2>2. ReqOK(k, s)
    BY <2>1 DEF Others, TInv
  <2> QED
    BY <2>1, <2>2 DEF ReqOK
<1>2. ASSUME NEW q \in Procs PROVE Touches(loc'[q]) \subseteq Touches(loc[q])
  BY DEF Others
<1>4. ASSUME NEW q \in Procs, NEW h \in Hosts \cap Touches(loc'[q]), Clean(h)'
      PROVE  Honest(pc[q], loc[q], h)'
  <2>1. CASE q = p
    <3>1. Honest(l, r, h)'
      BY <1>4, <2>1
    <3> QED
      BY <2>1, <3>1 DEF Honest, Whole, Current, Previous, Backed, Settling, Detached
  <2>2. CASE q # p
    <3>1. h \in Touches(loc[q]) /\ Clean(h)
      BY <1>0, <1>2, <1>4
    <3>2. h \notin Touches(loc[p])
      BY <2>2, <3>1 DEF RInv, Sole
    <3>3. Honest(pc[q], loc[q], h) /\ Like(h)
      BY <3>1, <3>2 DEF TInv
    <3>4. PICK k, s : k = pc[q] /\ s = loc[q]
      OBVIOUS
    <3>5. Honest(k, s, h)'
      BY <3>3, <3>4, HonestLike
    <3>6. pc'[q] = k /\ loc'[q] = s
      BY <2>2, <3>4 DEF Others
    <3> QED
      BY <3>5, <3>6 DEF Honest, Whole, Current, Previous, Backed, Settling, Detached
  <2> QED
    BY <2>1, <2>2
<1>5. ASSUME NEW h \in Hosts, Clean(h)', Untouched(h)' PROVE Truth(h)' /\ stash'[h] = None
  <2>1. h \notin Touches(r)
    BY <1>5 DEF Untouched
  <2>2. CASE h \in Touches(loc[p])
    BY <1>5, <2>1, <2>2
  <2>3. CASE h \notin Touches(loc[p])
    <3>1. Like(h) /\ Clean(h)
      BY <1>0, <1>5, <2>3
    <3>2. Untouched(h)
      BY <1>5, <2>3 DEF Untouched, Others
    <3>3. Truth(h) /\ stash[h] = None
      BY <3>1, <3>2 DEF TInv
    <3> QED
      BY <3>1, <3>3, TruthLike DEF Like, Same
  <2> QED
    BY <2>2, <2>3
<1> QED
  BY <1>1, <1>4, <1>5 DEF TInv

\* A request goes on, with the same hosts.
LEMMA TStays ==
    ASSUME RInv, TInv, NEW p \in Procs, NEW l, NEW r, pc'[p] = l, loc'[p] = r, Others(p), Worse, type' = type,
           \A h \in Hosts : row'[h].acl => type[h] = "proxy_host", ReqOK(l, r), From(r, loc[p]),
           \A h \in Hosts \ Touches(loc[p]) : Like(h),
           \A h \in Hosts \cap Touches(loc[p]) :
              Clean(h) /\ Local(pc[p], loc[p], h) /\ Honest(pc[p], loc[p], h) => Honest(l, r, h)'
    PROVE  TInv'
<1>1. Touches(r) = Touches(loc[p])
  BY SameTouches DEF From
<1>2. ASSUME NEW h \in Hosts \cap Touches(r), Clean(h)' PROVE Honest(l, r, h)'
  <2>1. Clean(h)
    BY <1>2 DEF Clean, Worse
  <2>2. Local(pc[p], loc[p], h) /\ Honest(pc[p], loc[p], h)
    BY <1>1, <2>1 DEF RInv, Kept, TInv
  <2> QED
    BY <1>1, <2>1, <2>2
<1> QED
  BY <1>1, <1>2, TKept

\* A request ends, its hosts with rows that are true or marked as spoilt.
LEMMA TEnds ==
    ASSUME IInv, RInv, TInv, NEW p \in Procs, Done(p), Worse, type' = type,
           \A h \in Hosts : row'[h].acl => type[h] = "proxy_host",
           \A h \in Hosts \ Touches(loc[p]) : Like(h),
           \A h \in Hosts \cap Touches(loc[p]) :
              Clean(h) /\ Clean(h)' /\ Local(pc[p], loc[p], h) /\ Honest(pc[p], loc[p], h) =>
                 Truth(h)' /\ stash'[h] = None
    PROVE  TInv'
<1>1. pc'[p] = "idle" /\ loc'[p] = Idle /\ Others(p)
  BY DEF IInv, ShapeOK, Done, Goto, Others
<1>2. ReqOK("idle", Idle)
  <2>1. Idle.kind = None
    BY DEF Idle, Fresh
  <2> QED
    BY <2>1, HostAssumption DEF ReqOK, ListPcs, HostAssumption, AllKinds
<1>3. ASSUME NEW h \in Hosts \cap Touches(loc[p]), Clean(h)' PROVE Truth(h)' /\ stash'[h] = None
  <2>1. Clean(h)
    BY <1>3 DEF Clean, Worse
  <2>2. Local(pc[p], loc[p], h) /\ Honest(pc[p], loc[p], h)
    BY <2>1 DEF RInv, Kept, TInv
  <2> QED
    BY <1>3, <2>1, <2>2
<1> QED
  BY <1>1, <1>2, <1>3, IdleTouches, TKept

\* A request reads, or nginx loads the confs.
LEMMA TGoes ==
    ASSUME RInv, TInv, NEW p \in Procs, NEW l, NEW r, pc'[p] = l, loc'[p] = r, Others(p), Worse,
           UNCHANGED <<type, row, rules, listed, conf, bak, stash>>, running' \in {running, conf},
           ReqOK(l, r), From(r, loc[p]),
           \A h \in Hosts \cap Touches(loc[p]) :
              Clean(h) /\ Local(pc[p], loc[p], h) /\ Honest(pc[p], loc[p], h) => Honest(l, r, h)
    PROVE  TInv'
<1>1. \A h \in Hosts : Like(h)
  BY DEF Like, Same
<1>2. \A h \in Hosts : row'[h].acl => type[h] = "proxy_host"
  BY DEF TInv
<1>3. ASSUME NEW h \in Hosts \cap Touches(loc[p]), Clean(h), Local(pc[p], loc[p], h), Honest(pc[p], loc[p], h)
      PROVE  Honest(l, r, h)'
  <2>1. Honest(l, r, h)
    BY <1>3
  <2> QED
    BY <1>1, <2>1, HonestLike
<1> QED
  BY <1>1, <1>2, <1>3, TStays

\* A request ends where the rows are true already.
LEMMA TStops ==
    ASSUME IInv, RInv, TInv, NEW p \in Procs, Done(p), Worse,
           UNCHANGED <<type, row, rules, listed, conf, bak, stash>>, running' \in {running, conf},
           \A h \in Hosts \cap Touches(loc[p]) :
              Clean(h) /\ Local(pc[p], loc[p], h) /\ Honest(pc[p], loc[p], h) => Truth(h) /\ stash[h] = None
    PROVE  TInv'
<1>1. \A h \in Hosts : Like(h)
  BY DEF Like, Same
<1>2. \A h \in Hosts : row'[h].acl => type[h] = "proxy_host"
  BY DEF TInv
<1>3. ASSUME NEW h \in Hosts \cap Touches(loc[p]), Clean(h), Local(pc[p], loc[p], h), Honest(pc[p], loc[p], h)
      PROVE  Truth(h)' /\ stash'[h] = None
  BY <1>1, <1>3, TruthLike
<1> QED
  BY <1>1, <1>2, <1>3, TEnds

\* A request ends with a reload of confs that are what the rows say.
LEMMA TruthLoaded ==
    ASSUME NEW h \in Hosts, Says(Fetched(h), conf[h]), running'[h] = conf[h],
           UNCHANGED <<type, row, rules, listed, conf>>
    PROVE  Truth(h)'
<1>1. PICK s, c : s = Fetched(h) /\ c = conf[h]
  OBVIOUS
<1>2. Fetched(h)' = s /\ conf'[h] = c /\ running'[h] = c
  BY <1>1 DEF Fetched
<1>3. Says(s, c)'
  BY <1>1 DEF Says, generateConfig, Serving
<1> QED
  BY <1>2, <1>3 DEF Truth, Says, generateConfig, Serving

\* A request that fails leaves its hosts on the list of failures.
LEMMA TRefuses ==
    ASSUME IInv, RInv, TInv, NEW p \in Procs, Done(p), Refuse(p), type' = type,
           \A h \in Hosts : row'[h].acl => type[h] = "proxy_host",
           \A h \in Hosts \ Touches(loc[p]) : Like(h)
    PROVE  TInv'
<1>1. Worse /\ \A h \in Touches(loc[p]) : ~Clean(h)'
  BY DEF Refuse, Clean, Worse
<1> QED
  BY <1>1, TEnds

\* A request begins with hosts that no other request works on, or spoils them.
LEMMA TBegins ==
    ASSUME IInv, RInv, TInv, NEW p \in Procs, NEW r,
           NEW l \in {"get", "patch", "list_clear", "list_get", "site_delete"},
           Request(p, r, l), ReqOK(l, r), DOMAIN r.snap = {}, l = "patch" => r.kind = "create",
           l = "list_clear" => listed
    PROVE  TInv'
<1>1. /\ pc[p] = "idle" /\ pc' = [pc EXCEPT ![p] = l] /\ loc' = [loc EXCEPT ![p] = r]
      /\ UNCHANGED <<type, row, rules, listed, conf, bak, stash, running, refused>>
      /\ raced' = raced \cup UNION {Touches(r) \cap Touches(loc[q]) : q \in Procs}
  BY DEF Request, Goto, KeepDb, KeepFiles, db, files
<1>2. pc'[p] = l /\ loc'[p] = r /\ Others(p)
  BY <1>1 DEF IInv, ShapeOK, Others
<1>3. Touches(loc[p]) = {}
  BY <1>1, IdleTouches DEF TInv, ReqOK
<1>4. \A h \in Hosts : Like(h)
  BY <1>1 DEF Like, Same
<1>5. ASSUME NEW h, Clean(h)' PROVE Clean(h) /\ (h \in Touches(r) => Untouched(h))
  BY <1>1, <1>5 DEF Clean, Untouched
<1>6. ASSUME NEW h \in Hosts \cap Touches(r), Clean(h)' PROVE Honest(l, r, h)'
  <2>1. Truth(h) /\ stash[h] = None
    BY <1>5, <1>6 DEF TInv
  <2>2. Honest(l, r, h)
    BY <2>1 DEF Honest, Reading, Previous, Backed, Settling, BulkPcs
  <2> QED
    BY <1>4, <2>2, HonestLike
<1>7. ASSUME NEW q \in Procs, NEW h \in Hosts \cap Touches(loc'[q]), Clean(h)'
      PROVE  Honest(pc[q], loc[q], h)'
  <2>1. CASE q = p
    <3>1. Honest(l, r, h)'
      BY <1>2, <1>6, <1>7, <2>1
    <3> QED
      BY <1>2, <2>1, <3>1 DEF Honest, Whole, Current, Previous, Backed, Settling, Detached
  <2>2. CASE q # p
    <3>1. PICK k, s : k = pc[q] /\ s = loc[q]
      OBVIOUS
    <3>2. Honest(k, s, h)
      BY <1>2, <1>5, <1>7, <2>2, <3>1 DEF Others, TInv
    <3>3. Honest(k, s, h)'
      BY <1>4, <3>2, HonestLike
    <3>4. pc'[q] = k /\ loc'[q] = s
      BY <1>2, <2>2, <3>1 DEF Others
    <3> QED
      BY <3>3, <3>4 DEF Honest, Whole, Current, Previous, Backed, Settling, Detached
  <2> QED
    BY <2>1, <2>2
<1>8. ASSUME NEW h \in Hosts, Clean(h)', Untouched(h)' PROVE Truth(h)' /\ stash'[h] = None
  <2>1. Clean(h) /\ Untouched(h)
    BY <1>2, <1>3, <1>5, <1>8 DEF Untouched, Others
  <2>2. Truth(h) /\ stash[h] = None
    BY <2>1 DEF TInv
  <2> QED
    BY <1>1, <1>4, <2>2, TruthLike
<1>9. ASSUME NEW q \in Procs PROVE ReqOK(pc[q], loc[q])'
  <2>1. PICK k, s : k = pc'[q] /\ s = loc'[q]
    OBVIOUS
  <2>2. ReqOK(k, s)
    BY <1>2, <2>1 DEF Others, TInv
  <2> QED
    BY <1>1, <2>1, <2>2 DEF ReqOK
<1>10. \A h \in Hosts : row'[h].acl => type'[h] = "proxy_host"
  BY <1>1 DEF TInv
<1> QED
  BY <1>7, <1>8, <1>9, <1>10 DEF TInv

LEMMA TReceived == ASSUME IInv, RInv, TInv, NEW p \in Procs, Receive(p) PROVE TInv'
<1>1. ASSUME NEW r, r.bad = {}, DOMAIN r.snap = {}, r.acl => type[r.host] = "proxy_host",
             NEW l \in {"get", "patch", "list_clear", "list_get", "site_delete"}, Request(p, r, l),
             l = "patch" => r.kind = "create", l = "list_clear" => listed
      PROVE  TInv'
  <2>1. ReqOK(l, r)
    BY <1>1 DEF ReqOK
  <2> QED
    BY <1>1, <2>1, TBegins
<1>3. CASE Create(p)
  <2>1. PICK h \in Hosts, b \in Bodies :
           Allowed(h, b) /\ Request(p, Fresh("create", h, b.set, b.acl, b.cert), "patch")
    BY <1>3 DEF Create
  <2>2. PICK r : r = Fresh("create", h, b.set, b.acl, b.cert)
    OBVIOUS
  <2>3. r.kind = "create" /\ r.host = h /\ r.acl = b.acl /\ r.bad = {} /\ DOMAIN r.snap = {}
    BY <2>2 DEF Fresh
  <2> QED
    BY <1>1, <2>1, <2>2, <2>3 DEF Allowed
<1>4. CASE Update(p)
  <2>1. PICK h \in Hosts, b \in Bodies :
           Allowed(h, b) /\ Request(p, Fresh("update", h, b.set, b.acl, b.cert), "get")
    BY <1>4 DEF Update
  <2>2. PICK r : r = Fresh("update", h, b.set, b.acl, b.cert)
    OBVIOUS
  <2>3. r.host = h /\ r.acl = b.acl /\ r.bad = {} /\ DOMAIN r.snap = {}
    BY <2>2 DEF Fresh
  <2> QED
    BY <1>1, <2>1, <2>2, <2>3 DEF Allowed
<1>5. ASSUME NEW k, Change(p, k) PROVE TInv'
  <2>1. PICK h \in Hosts : Request(p, Fresh(k, h, None, FALSE, FALSE), "get")
    BY <1>5 DEF Change
  <2>2. PICK r : r = Fresh(k, h, None, FALSE, FALSE)
    OBVIOUS
  <2>3. ~r.acl /\ r.bad = {} /\ DOMAIN r.snap = {}
    BY <2>2 DEF Fresh
  <2>4. Request(p, r, "get")
    BY <2>1, <2>2, Zenon
  <2> QED
    BY <1>1, <2>3, <2>4
<1>6. CASE ListUpdate(p)
  <2>1. PICK n \in 1..MaxRules :
           listed /\ Request(p, [Fresh("list", None, None, FALSE, FALSE) EXCEPT !.rules = n], "list_clear")
    BY <1>6 DEF ListUpdate
  <2>2. PICK r : r = [Fresh("list", None, None, FALSE, FALSE) EXCEPT !.rules = n]
    OBVIOUS
  <2>3. ~r.acl /\ r.bad = {} /\ DOMAIN r.snap = {}
    BY <2>2 DEF Fresh
  <2>4. Request(p, r, "list_clear")
    BY <2>1, <2>2, Zenon
  <2> QED
    BY <1>1, <2>1, <2>3, <2>4
<1>7. CASE ListDelete(p)
  <2>1. PICK r : r = Fresh("unlist", None, None, FALSE, FALSE)
    OBVIOUS
  <2>2. Request(p, r, "list_get")
    BY <1>7, <2>1 DEF ListDelete
  <2>3. ~r.acl /\ r.bad = {} /\ DOMAIN r.snap = {}
    BY <2>1 DEF Fresh
  <2> QED
    BY <1>1, <2>2, <2>3
<1>8. CASE SettingUpdate(p)
  <2>1. PICK v : Request(p, Fresh("site", None, v, FALSE, FALSE), "site_delete")
    BY <1>8 DEF SettingUpdate
  <2>2. PICK r : r = Fresh("site", None, v, FALSE, FALSE)
    OBVIOUS
  <2>3. ~r.acl /\ r.bad = {} /\ DOMAIN r.snap = {}
    BY <2>2 DEF Fresh
  <2>4. Request(p, r, "site_delete")
    BY <2>1, <2>2, Zenon
  <2> QED
    BY <1>1, <2>3, <2>4
<1> QED
  BY <1>3, <1>4, <1>5, <1>6, <1>7, <1>8 DEF Receive

\* What a request reads of a host is what its row says.
LEMMA TReads ==
    ASSUME IInv, RInv, TInv, NEW p \in Procs,
           Get(p) \/ Fetch(p) \/ getHostsWithDomains(p) \/ requestLetsEncryptSsl(p)
    PROVE  TInv'
<1>1. PICK k, h : k = loc[p] /\ h = loc[p].host
  OBVIOUS
<1>2. DOMAIN k = LocFields /\ KindOK(pc[p], k) /\ ReadOK(pc[p], k, type) /\ ReqOK(pc[p], k) /\ k.host = h
  BY <1>1 DEF IInv, ShapeOK, RInv, KindsOK, TInv
<1>3. /\ UNCHANGED <<type, row, rules, listed, conf, bak, stash>> /\ running' \in {running, conf} /\ Worse
      /\ pc[p] \in {"get", "fetch", "cert_find", "cert_request"}
  BY DEF Get, Fetch, getHostsWithDomains, requestLetsEncryptSsl, Keep, KeepFiles, Told, history, files,
         Worse, KeepDb, db, reloadTested
<1>4. ASSUME NEW l \in {"patch", "cert_find", "configure", "cert_stash", "cert_done", "bulk"}, NEW r,
             loc' = [loc EXCEPT ![p] = r], pc' = [pc EXCEPT ![p] = l],
             From(r, k), r.acl = k.acl, r.bad = k.bad,
             l = "patch" => r.kind # "create", l = "configure" <=> pc[p] = "fetch",
             \A g \in Hosts \cap Touches(k) : Clean(g) /\ Honest(pc[p], k, g) => Honest(l, r, g)
      PROVE  TInv'
  <2>1. pc'[p] = l /\ loc'[p] = r /\ Others(p)
    BY <1>4 DEF IInv, ShapeOK, Others
  <2>2. ReqOK(l, r)
    BY <1>2, <1>3, <1>4 DEF ReqOK, From, ListPcs
  <2> QED
    BY <1>1, <1>3, <1>4, <2>1, <2>2, TGoes
<1>5. CASE Get(p)
  <2>1. pc[p] = "get"
    BY <1>5 DEF Get
  <2>2. ASSUME NEW g, Honest("get", k, g) PROVE Truth(g) /\ stash[g] = None
    BY <2>2 DEF Honest, Whole
  <2>3. CASE Done(p)
    BY <1>1, <1>3, <2>1, <2>2, <2>3, TStops
  <2>4. CASE ~Done(p)
    <3>1. PICK r : r = [k EXCEPT !.old = row[h], !.snap = [x \in {h} |-> Fetched(h)]]
      OBVIOUS
    <3>2. PICK l : l = IF k.cert THEN "cert_find" ELSE "patch"
      OBVIOUS
    <3>3. /\ loc' = [loc EXCEPT ![p] = r] /\ pc' = [pc EXCEPT ![p] = l] /\ Live(h)
      BY <1>1, <1>5, <2>4, <3>1, <3>2 DEF Get, Goto
    <3>4. From(r, k) /\ r.snap = [x \in {h} |-> Fetched(h)] /\ r.acl = k.acl /\ r.bad = k.bad
      BY <1>2, <3>1 DEF LocFields, From
    <3>5. ASSUME NEW g \in Hosts \cap Touches(k), Honest(pc[p], k, g) PROVE Honest(l, r, g)
      <4>1. Truth(g) /\ stash[g] = None
        BY <2>1, <2>2, <3>5
      <4>2. ASSUME k.kind = "enable" PROVE g = h
        <5>1. ~k.cert /\ k.kind \in HostKinds /\ k.kind \in AllKinds
          BY <1>2, <4>2 DEF ReadOK, HostKinds, AllKinds
        <5> QED
          BY <1>2, <3>5, <5>1, TouchesKind
      <4>3. k.kind = "enable" => r.snap[g] = Fetched(g) /\ Live(g)
        BY <3>3, <3>4, <4>2
      <4>4. l \in {"cert_find", "patch"} /\ (r.kind = "enable" => k.kind = "enable")
        BY <3>2, <3>4 DEF From
      <4> QED
        BY <4>1, <4>3, <4>4 DEF Honest, Reading, Previous, Backed, Settling, BulkPcs
    <3>6. r.kind # "create" /\ l \in {"cert_find", "patch"}
      BY <1>2, <2>1, <3>2, <3>4 DEF KindOK, From
    <3> QED
      BY <1>4, <2>1, <3>3, <3>4, <3>5, <3>6
  <2> QED
    BY <2>3, <2>4
<1>6. CASE Fetch(p)
  <2>1. pc[p] = "fetch"
    BY <1>6 DEF Fetch
  <2>2. ASSUME NEW g, Honest("fetch", k, g)
        PROVE  /\ stash[g] = None /\ (g # h => Truth(g))
               /\ g = h => Stopped(g, conf[g]) /\ Stopped(g, running[g])
    BY <1>2, <2>2 DEF Honest, Whole, Previous
  <2>3. CASE ~Live(h) \/ (type[h] = "proxy_host" /\ ~row[h].enabled)
    <3>1. Done(p)
      BY <1>1, <1>6, <2>3 DEF Fetch
    <3>2. ASSUME NEW g, Honest("fetch", k, g) PROVE Truth(g) /\ stash[g] = None
      BY <2>2, <2>3, <3>2, SaysOff DEF Truth
    <3> QED
      BY <1>1, <1>3, <2>1, <3>1, <3>2, TStops
  <2>4. CASE ~(~Live(h) \/ (type[h] = "proxy_host" /\ ~row[h].enabled))
    <3>1. PICK r : r = [k EXCEPT !.snap = [x \in {h} |-> Fetched(x)]]
      OBVIOUS
    <3>3. /\ loc' = [loc EXCEPT ![p] = r] /\ pc' = [pc EXCEPT ![p] = "configure"]
      BY <1>1, <1>6, <2>4, <3>1 DEF Fetch, Load, Set, Goto
    <3>4. From(r, k) /\ r.snap = [x \in {h} |-> Fetched(x)] /\ r.acl = k.acl /\ r.bad = k.bad
      BY <1>2, <3>1 DEF LocFields, From
    <3>5. ASSUME NEW g \in Hosts, Honest(pc[p], k, g) PROVE Honest("configure", r, g)
      <4>1. Current(r, g)
        BY <2>4, <3>4 DEF Current, Fetched
      <4>2. r.host = h
        BY <1>2, <3>4 DEF From
      <4> QED
        BY <2>1, <2>2, <3>5, <4>1, <4>2 DEF Honest, Whole, Previous, Backed, Settling, BulkPcs, ConfigurePcs
    <3> QED
      BY <1>4, <2>1, <3>3, <3>4, <3>5
  <2> QED
    BY <2>3, <2>4
<1>7. CASE getHostsWithDomains(p)
  <2>0. PICK B : B = {g \in Hosts : Live(g) /\ type[g] # "stream" /\ Name[row[g].set] = Name[loc[p].set]}
    OBVIOUS
  <2>1. PICK r : r = [k EXCEPT !.snap = [g \in B |-> Fetched(g)]]
    OBVIOUS
  <2>3. /\ loc' = [loc EXCEPT ![p] = r] /\ pc' = [pc EXCEPT ![p] = "cert_stash"] /\ pc[p] = "cert_find"
    BY <1>1, <1>7, <2>0, <2>1 DEF getHostsWithDomains, Load, Set, Goto
  <2>4. From(r, k) /\ r.snap = [g \in B |-> Fetched(g)] /\ r.acl = k.acl /\ r.bad = k.bad
    BY <1>2, <2>1 DEF LocFields, From
  <2>5. ASSUME NEW g \in Hosts, Honest(pc[p], k, g) PROVE Honest("cert_stash", r, g)
    <3>1. Truth(g) /\ stash[g] = None
      BY <2>3, <2>5 DEF Honest, Whole
    <3>2. Current(r, g)
      BY <2>0, <2>4 DEF Current, Fetched
    <3> QED
      BY <3>1, <3>2 DEF Honest, Previous, Backed, Settling, BulkPcs
  <2> QED
    BY <1>4, <2>3, <2>4, <2>5
<1>8. CASE requestLetsEncryptSsl(p)
  <2>0. PICK ok \in BOOLEAN : Set(p, "issued", ok)
    BY <1>8, Zenon DEF requestLetsEncryptSsl
  <2>1. PICK r : r = [k EXCEPT !.issued = ok]
    OBVIOUS
  <2>2. PICK l : l = IF DOMAIN k.snap = {} THEN "cert_done" ELSE "bulk"
    OBVIOUS
  <2>3. /\ pc' = [pc EXCEPT ![p] = l] /\ pc[p] = "cert_request" /\ l \in {"cert_done", "bulk"}
    BY <1>1, <1>8, <2>2 DEF requestLetsEncryptSsl, Goto, Batch
  <2>4. loc' = [loc EXCEPT ![p] = r]
    BY <1>1, <2>0, <2>1 DEF Set
  <2>5. From(r, k) /\ r.snap = k.snap /\ r.acl = k.acl /\ r.bad = k.bad
    BY <1>2, <2>1 DEF LocFields, From
  <2>6. ASSUME NEW g \in Hosts, Honest("cert_request", k, g) PROVE Honest(l, r, g)
    <3>1. CASE l = "cert_done"
      <4>1. Truth(g) /\ stash[g] = None
        BY <2>2, <2>6, <3>1 DEF Honest, Whole
      <4> QED
        BY <3>1, <4>1 DEF Honest, Whole, Reading, Previous, Backed, Settling, Truth, BulkPcs, ConfigurePcs
    <3>2. CASE l = "bulk"
      <4>1. /\ stash[g] # None => g \in DOMAIN k.snap /\ Stopped(g, stash[g])
            /\ g \notin DOMAIN k.snap => Truth(g)
            /\ Current(k, g) /\ Stopped(g, conf[g])
        BY <2>6 DEF Honest, Whole, Reading, Previous
      <4>2. Current(r, g)
        BY <2>5, <4>1 DEF Current
      <4> QED
        BY <2>5, <3>2, <4>1, <4>2 DEF Honest, Whole, Backed, Settling, BulkPcs, ConfigurePcs
    <3> QED
      BY <2>3, <3>1, <3>2
  <2> QED
    BY <1>4, <2>3, <2>4, <2>5, <2>6
<1> QED
  BY <1>5, <1>6, <1>7, <1>8

\* The reloads, the certificate request's end and the default site.
LEMMA TReloaded ==
    ASSUME IInv, RInv, SInv, TInv, NEW p \in Procs,
           \/ reload(p) \/ CertDone(p)
           \/ SiteDelete(p) \/ SiteGenerate(p) \/ SiteReload(p) \/ SiteUndo(p)
    PROVE  TInv'
<1>1. PICK k : k = loc[p]
  OBVIOUS
<1>2. KindOK(pc[p], k) /\ ReadOK(pc[p], k, type) /\ ReqOK(pc[p], k)
  BY <1>1 DEF IInv, RInv, KindsOK, TInv
<1>3. /\ UNCHANGED <<type, row, rules, listed, conf, bak, stash>> /\ Worse
      /\ running' \in {running, conf} /\ \A h \in Hosts : row'[h].acl => type[h] = "proxy_host"
  BY DEF reload, CertDone, SiteDelete, SiteGenerate, SiteReload, SiteUndo, SiteWrite, Keep, Told, Refuse,
         history, files, Worse, KeepDb, db, reloadTested, TInv
<1>4. \A h \in Hosts : Like(h)
  BY <1>3 DEF Like, Same
<1>5. CASE reload(p)
  <2>1. pc[p] = "reload" /\ Done(p)
    BY <1>5 DEF reload
  <2>2. CASE test(conf, site)
    <3>1. running' = conf
      BY <1>5, <2>2 DEF reload, reloadTested
    <3>2. ASSUME NEW h \in Hosts, Honest("reload", k, h) PROVE Truth(h)' /\ stash'[h] = None
      <4>1. Says(Fetched(h), conf[h]) /\ stash[h] = None
        BY <3>2 DEF Honest, Settling
      <4> QED
        BY <1>3, <3>1, <4>1, TruthLoaded
    <3> QED
      BY <1>1, <1>3, <1>4, <2>1, <3>2, TEnds
  <2>3. CASE ~test(conf, site)
    <3>1. Refuse(p)
      BY <1>5, <2>3 DEF reload
    <3> QED
      BY <1>3, <1>4, <2>1, <3>1, TRefuses
  <2> QED
    BY <2>2, <2>3
<1>6. CASE CertDone(p)
  <2>1. pc[p] = "cert_done" /\ Free /\ reloadTested(conf)
    BY <1>6 DEF CertDone
  <2>2. ASSUME NEW h \in Hosts, Clean(h), Honest("cert_done", k, h) PROVE Truth(h)' /\ stash'[h] = None
    <3>1. Says(Fetched(h), conf[h]) /\ stash[h] = None
      BY <2>2 DEF Honest, Settling
    <3>2. CASE test(conf, site)
      <4>1. running' = conf
        BY <2>1, <3>2 DEF reloadTested
      <4> QED
        BY <1>3, <3>1, <4>1, TruthLoaded
    <3>3. CASE ~test(conf, site)
      <4>1. Sound("cert_done", k)
        BY <1>1, <2>1 DEF SInv
      <4>2. DOMAIN k.snap = {}
        BY <2>1, <2>2, <3>3, <4>1 DEF Sound, NoneClean
      <4>3. Truth(h)
        BY <2>2, <3>1, <4>2 DEF Honest, Truth
      <4> QED
        BY <1>3, <1>4, <3>1, <4>3, TruthLike
    <3> QED
      BY <3>2, <3>3
  <2>3. CASE k.issued
    <3>1. PICK l : l = IF k.kind = "create" THEN "fetch" ELSE "patch"
      OBVIOUS
    <3>2. Goto(p, l) /\ loc' = loc
      BY <1>1, <1>6, <2>3, <3>1 DEF CertDone
    <3>3. pc'[p] = l /\ loc'[p] = k /\ Others(p) /\ l \in {"fetch", "patch"}
      BY <1>1, <3>1, <3>2 DEF IInv, ShapeOK, Goto, Others
    <3>4. k.kind \in {"create", "update"} /\ (l = "patch" => k.kind = "update")
      BY <1>2, <2>1, <3>1 DEF KindOK, ReadOK, CertPcs
    <3>5. ReqOK(l, k)
      BY <1>2, <3>3, <3>4 DEF ReqOK, ListPcs
    <3>6. ASSUME NEW h \in Hosts, Clean(h), Honest("cert_done", k, h) PROVE Honest(l, k, h)'
      <4>1. Truth(h)' /\ stash'[h] = None
        BY <2>2, <3>6
      <4>2. Stopped(h, conf[h])' /\ Stopped(h, running[h])'
        BY <4>1 DEF Truth, Says, Stopped, Fetched, Live
      <4> QED
        BY <3>3, <3>4, <4>1, <4>2 DEF Honest, Reading, Backed, Settling, BulkPcs
    <3> QED
      BY <1>1, <1>3, <1>4, <2>1, <3>3, <3>5, <3>6, TStays DEF From
  <2>4. CASE ~k.issued
    <3>1. Done(p)
      BY <1>1, <1>6, <2>4 DEF CertDone
    <3> QED
      BY <1>1, <1>3, <1>4, <2>1, <2>2, <3>1, TEnds
  <2> QED
    BY <2>3, <2>4
<1>7. CASE SiteDelete(p) \/ SiteGenerate(p) \/ SiteReload(p) \/ SiteUndo(p)
  <2>1. pc[p] \in {"site_delete", "site_generate", "site_reload", "site_undo"}
    BY <1>7 DEF SiteDelete, SiteGenerate, SiteReload, SiteUndo, SiteWrite
  <2>2. ASSUME NEW h, Honest(pc[p], k, h) PROVE Truth(h) /\ stash[h] = None
    BY <2>1, <2>2 DEF Honest, Whole
  <2>3. CASE Done(p)
    BY <1>1, <1>3, <2>2, <2>3, TStops
  <2>4. CASE ~Done(p)
    <3>1. PICK l \in {"site_generate", "site_reload", "site_undo", "reload"} : Goto(p, l) /\ loc' = loc
      BY <1>7, <2>4 DEF SiteDelete, SiteGenerate, SiteReload, SiteUndo, SiteWrite
    <3>2. pc'[p] = l /\ loc'[p] = k /\ Others(p)
      BY <1>1, <3>1 DEF IInv, ShapeOK, Goto, Others
    <3>3. ReqOK(l, k)
      BY <1>2, <3>1 DEF ReqOK, ListPcs
    <3>4. ASSUME NEW h, Honest(pc[p], k, h) PROVE Honest(l, k, h)
      BY <2>2, <3>1, <3>4 DEF Honest, Whole, Reading, Previous, Backed, Settling, BulkPcs, ConfigurePcs, Truth
    <3> QED
      BY <1>1, <1>3, <3>2, <3>3, <3>4, TGoes DEF From
  <2> QED
    BY <2>3, <2>4
<1> QED
  BY <1>5, <1>6, <1>7

\* The host's row is written.
LEMMA TPatched == ASSUME IInv, RInv, TInv, NEW p \in Procs, Patch(p) PROVE TInv'
<1>1. PICK k, h : k = loc[p] /\ h = loc[p].host
  OBVIOUS
<1>2. /\ DOMAIN k = LocFields /\ KindOK("patch", k) /\ ReadOK("patch", k, type) /\ RowsOK /\ pc[p] = "patch"
      /\ k.host = h /\ ReqOK("patch", k)
  BY <1>1 DEF IInv, ShapeOK, RInv, KindsOK, Patch, TInv
<1>3. UNCHANGED <<type, conf, bak, stash, rules, listed, running>> /\ Worse
  BY DEF Patch, Keep, KeepFiles, files, Told, history, Worse
<1>4. k.kind \in HostKinds /\ h \in Hosts /\ h \in Touches(k) /\ (~k.cert => Touches(k) = {h})
  BY <1>2, TouchesKind DEF KindOK, HostPcs, HostKinds, AllKinds
<1>5. ASSUME NEW g, Honest("patch", k, g) PROVE Truth(g) /\ stash[g] = None
  BY <1>5 DEF Honest, Whole
<1>6. ASSUME NEW l \in {"cert_find", "fetch", "delete", "configure"}, NEW r, NEW x,
             pc' = [pc EXCEPT ![p] = l], loc'[p] = r, \A q \in Procs \ {p} : loc'[q] = loc[q],
             row' = [row EXCEPT ![h] = x], x.acl => type[h] = "proxy_host", From(r, k), ReqOK(l, r),
             l \in {"delete", "configure"} => ~k.cert,
             Clean(h) /\ Local("patch", k, h) /\ Honest("patch", k, h) => Honest(l, r, h)'
      PROVE  TInv'
  <2>1. pc'[p] = l /\ Others(p)
    BY <1>6 DEF IInv, ShapeOK, Others
  <2>2. row'[h] = x /\ \A g \in Hosts \ {h} : row'[g] = row[g] /\ Like(g)
    BY <1>2, <1>3, <1>4, <1>6 DEF RowsOK, Like, Same
  <2>3. \A g \in Hosts : row'[g].acl => type[g] = "proxy_host"
    BY <1>6, <2>2 DEF TInv
  <2>4. ASSUME NEW g \in Hosts \cap Touches(k), g # h, Honest("patch", k, g)
        PROVE  Honest(l, r, g)'
    <3>1. l \in {"cert_find", "fetch"}
      BY <1>4, <1>6, <2>4
    <3>2. Truth(g) /\ stash[g] = None
      BY <1>5, <2>4
    <3>3. Stopped(g, running[g]) /\ g # r.host
      BY <1>2, <1>6, <2>4, <3>2, SaysStops DEF Truth, From
    <3>4. Honest(l, r, g)
      BY <3>1, <3>2, <3>3 DEF Honest, Reading, Previous, Backed, Settling, BulkPcs
    <3> QED
      BY <2>2, <2>4, <3>4, HonestLike
  <2>5. ASSUME NEW g \in Hosts \cap Touches(loc[p]), Clean(g), Local(pc[p], loc[p], g), Honest(pc[p], loc[p], g)
        PROVE  Honest(l, r, g)'
    BY <1>1, <1>2, <1>6, <2>4, <2>5
  <2> QED
    BY <1>1, <1>3, <1>4, <1>6, <2>1, <2>2, <2>3, <2>5, TStays
<1>7. CASE k.kind = "create"
  <2>1. PICK x : x = [alive |-> "live", enabled |-> TRUE, set |-> k.set, acl |-> k.acl, meta |-> "unset"]
    OBVIOUS
  <2>2. PICK l : l = IF k.cert THEN "cert_find" ELSE "fetch"
    OBVIOUS
  <2>3. /\ row' = [row EXCEPT ![h] = x] /\ pc' = [pc EXCEPT ![p] = l] /\ loc' = loc
        /\ l \in {"cert_find", "fetch"}
    BY <1>1, <1>7, <2>1, <2>2 DEF Patch, Goto
  <2>4. x.alive = "live" /\ x.enabled /\ x.acl = k.acl /\ x.meta = "unset" /\ row'[h] = x
    BY <1>2, <1>4, <2>1, <2>3 DEF RowsOK
  <2>5. ReqOK(l, k) /\ (x.acl => type[h] = "proxy_host")
    BY <1>2, <1>7, <2>3, <2>4 DEF ReqOK, ListPcs
  <2>6. ASSUME Honest("patch", k, h) PROVE Honest(l, k, h)'
    <3>1. stash'[h] = None /\ Truth(h)' /\ \A c : Stopped(h, c)'
      BY <1>3, <1>5, <2>4, <2>6 DEF Truth, Says, Fetched, Stopped, Live
    <3> QED
      BY <1>7, <2>3, <3>1 DEF Honest, Reading, Backed, Settling, BulkPcs
  <2> QED
    BY <1>1, <1>6, <2>3, <2>4, <2>5, <2>6 DEF From
<1>8. CASE k.kind = "update"
  <2>1. PICK x : x = Merged(h, k)
    OBVIOUS
  <2>2. /\ row' = [row EXCEPT ![h] = x] /\ pc' = [pc EXCEPT ![p] = "fetch"] /\ loc' = loc
    BY <1>1, <1>8, <2>1 DEF Patch, Goto
  <2>3. DOMAIN k.old = RowFields /\ DOMAIN row[h] = RowFields
    BY <1>2, <1>4, <1>8 DEF KindOK, RowsOK
  <2>4. /\ x.acl = k.acl /\ x.alive = row[h].alive /\ row'[h] = x
        /\ x.enabled = row[h].enabled \/ x.enabled = k.old.enabled
    BY <1>2, <1>4, <2>1, <2>2, <2>3 DEF Merged, RowFields, RowsOK
  <2>5. ReqOK("fetch", k) /\ (x.acl => type[h] = "proxy_host")
    BY <1>2, <1>8, <2>4 DEF ReqOK, ListPcs
  <2>6. ASSUME Local("patch", k, h), Honest("patch", k, h) PROVE Honest("fetch", k, h)'
    <3>1. x.enabled = row[h].enabled
      BY <1>2, <1>8, <2>4, <2>6 DEF Local
    <3>2. stash[h] = None /\ Stopped(h, conf[h]) /\ Stopped(h, running[h])
      BY <1>5, <2>6, SaysStops DEF Truth
    <3>3. stash'[h] = None /\ Stopped(h, conf[h])' /\ Stopped(h, running[h])'
      BY <1>3, <2>4, <3>1, <3>2 DEF Stopped, Live, Serving
    <3> QED
      BY <1>2, <1>8, <3>3 DEF Honest, Whole, Reading, Backed, Settling, BulkPcs, ConfigurePcs
  <2> QED
    BY <1>1, <1>6, <2>2, <2>4, <2>5, <2>6 DEF From
<1>9. CASE k.kind = "enable"
  <2>1. PICK x : x = [row[h] EXCEPT !.enabled = TRUE]
    OBVIOUS
  <2>2. PICK f : f = k.snap[h]
    OBVIOUS
  <2>3. PICK s : s = [f EXCEPT !.row.enabled = TRUE]
    OBVIOUS
  <2>4. PICK r : r = [k EXCEPT !.snap = [k.snap EXCEPT ![h] = s]]
    OBVIOUS
  <2>5. /\ row' = [row EXCEPT ![h] = x] /\ pc' = [pc EXCEPT ![p] = "configure"]
        /\ loc' = [loc EXCEPT ![p] = r]
    BY <1>1, <1>9, <2>1, <2>2, <2>3, <2>4 DEF Patch, Goto
  <2>6. /\ DOMAIN k.snap = {h} /\ DOMAIN f = {"row", "rules"} /\ DOMAIN f.row = RowFields /\ ~k.cert
        /\ DOMAIN row[h] = RowFields
    BY <1>2, <1>4, <1>9, <2>2 DEF KindOK, ReadOK, RowsOK
  <2>7. s.row = [f.row EXCEPT !.enabled = TRUE] /\ s.rules = f.rules
    BY <2>3, <2>6
  <2>8. /\ From(r, k) /\ r.snap = [k.snap EXCEPT ![h] = s] /\ r.acl = k.acl
    BY <1>2, <2>4 DEF LocFields, From
  <2>9. x.acl = row[h].acl /\ x.alive = row[h].alive /\ x.enabled /\ row'[h] = x
    BY <1>2, <1>4, <2>1, <2>5, <2>6 DEF RowsOK, RowFields
  <2>10. ReqOK("configure", r) /\ (x.acl => type[h] = "proxy_host")
    BY <1>4, <1>9, <2>8, <2>9 DEF ReqOK, ListPcs, From, TInv
  <2>11. ASSUME Honest("patch", k, h) PROVE Honest("configure", r, h)'
    <3>1. r.snap[h] = s /\ DOMAIN r.snap = {h} /\ r.host = h
      BY <1>2, <2>6, <2>8 DEF From
    <3>2. f = Fetched(h) /\ Live(h) /\ stash[h] = None
      BY <1>5, <1>9, <2>2, <2>11 DEF Honest
    <3>3. f.row = row[h] /\ f.rules = Fetched(h).rules
      BY <3>2 DEF Fetched
    <3>4. Fetched(h)'.rules = Fetched(h).rules /\ stash'[h] = None
      BY <1>3, <3>2 DEF Fetched
    <3>5. s.row = x /\ s.rules = Fetched(h)'.rules /\ Live(h)'
      BY <2>1, <2>7, <2>9, <3>2, <3>3, <3>4 DEF Live
    <3>6. Current(r, h)' /\ \A c : Stopped(h, c)'
      BY <2>9, <3>1, <3>5 DEF Current, Stopped
    <3> QED
      BY <3>1, <3>4, <3>6 DEF Honest, Whole, Previous, Backed, Settling, BulkPcs, ConfigurePcs
  <2>12. loc'[p] = r /\ \A q \in Procs \ {p} : loc'[q] = loc[q]
    BY <2>5 DEF IInv, ShapeOK
  <2> QED
    BY <1>6, <2>5, <2>6, <2>8, <2>10, <2>11, <2>12
<1>10. CASE k.kind \in {"disable", "delete"}
  <2>1. PICK x : x = IF k.kind = "disable" THEN [row[h] EXCEPT !.enabled = FALSE]
                     ELSE [row[h] EXCEPT !.alive = "gone"]
    OBVIOUS
  <2>2. /\ row' = [row EXCEPT ![h] = x] /\ pc' = [pc EXCEPT ![p] = "delete"] /\ loc' = loc
    BY <1>1, <1>10, <2>1 DEF Patch, Goto
  <2>3. x.acl = row[h].acl
    BY <1>2, <1>4, <1>10, <2>1 DEF RowsOK, RowFields
  <2>4. ~k.cert /\ ReqOK("delete", k) /\ (x.acl => type[h] = "proxy_host")
    BY <1>2, <1>4, <1>10, <2>3 DEF KindOK, ReqOK, ListPcs, TInv
  <2>5. ASSUME Honest("patch", k, h) PROVE Honest("delete", k, h)'
    <3>1. stash'[h] = None
      BY <1>3, <1>5, <2>5
    <3> QED
      BY <3>1 DEF Honest, Whole, Reading, Previous, Backed, Settling, BulkPcs, ConfigurePcs
  <2> QED
    BY <1>1, <1>6, <2>2, <2>4, <2>5 DEF From
<1> QED
  BY <1>4, <1>7, <1>8, <1>9, <1>10 DEF HostKinds

\* The conf of a host that is off is deleted, and confs are stashed for a certificate request.
LEMMA TTakenOut ==
    ASSUME IInv, RInv, TInv, NEW p \in Procs, deleteConfig(p) \/ bulkStashConfigs(p)
    PROVE  TInv'
<1>1. PICK k : k = loc[p]
  OBVIOUS
<1>2. /\ KindOK(pc[p], k) /\ ReadOK(pc[p], k, type) /\ ReqOK(pc[p], k)
      /\ DOMAIN conf = Hosts /\ DOMAIN stash = Hosts
  BY <1>1 DEF IInv, ShapeOK, RInv, KindsOK, TInv
<1>3. /\ UNCHANGED <<type, row, rules, listed, bak, running, loc>> /\ Worse
      /\ \A h \in Hosts : row'[h].acl => type[h] = "proxy_host"
  BY DEF deleteConfig, bulkStashConfigs, Told, history, Worse, Keep, KeepDb, db, TInv
<1>4. ASSUME NEW l, Goto(p, l) PROVE pc'[p] = l /\ loc'[p] = k /\ Others(p)
  BY <1>1, <1>3, <1>4 DEF IInv, ShapeOK, Goto, Others
<1>5. CASE deleteConfig(p)
  <2>1. /\ pc[p] = "delete" /\ conf' = [conf EXCEPT ![k.host] = None] /\ Goto(p, "reload") /\ stash' = stash
    BY <1>1, <1>5 DEF deleteConfig
  <2>2. k.kind \in {"disable", "delete"} /\ Touches(k) = {k.host} /\ ReqOK("reload", k)
    BY <1>2, <2>1, TouchesKind DEF KindOK, ReqOK, ListPcs, AllKinds, HostKinds
  <2>3. \A h \in Hosts \ {k.host} : Like(h)
    BY <1>2, <1>3, <2>1 DEF Like, Same
  <2>4. ASSUME NEW h \in Hosts, h = k.host, Local("delete", k, h), Honest("delete", k, h)
        PROVE  Honest("reload", k, h)'
    <3>1. stash'[h] = None /\ conf'[h] = None
      BY <1>2, <2>1, <2>4 DEF Honest
    <3>2. ~(row'[h].alive = "live" /\ row'[h].enabled)
      BY <1>3, <2>4 DEF Local, Live
    <3>3. Says(Fetched(h), conf[h])'
      BY <3>1, <3>2, Nothing DEF Says, Fetched, Serving
    <3> QED
      BY <3>1, <3>3 DEF Honest, Whole, Reading, Previous, Backed, BulkPcs, ConfigurePcs
  <2> QED
    BY <1>1, <1>3, <1>4, <2>1, <2>2, <2>3, <2>4, TStays DEF From
<1>6. CASE bulkStashConfigs(p)
  <2>0. PICK B : B = {h \in DOMAIN k.snap : conf[h] # None}
    OBVIOUS
  <2>1. /\ pc[p] = "cert_stash" /\ Goto(p, "cert_request")
        /\ stash' = [h \in Hosts |-> IF h \in B THEN conf[h] ELSE stash[h]]
        /\ conf' = [h \in Hosts |-> IF h \in B THEN None ELSE conf[h]]
    BY <1>1, <1>6, <2>0 DEF bulkStashConfigs, Batch
  <2>2. Touches(k) = Hosts /\ ReqOK("cert_request", k)
    BY <1>2, <2>1, TouchesKind DEF ReadOK, CertPcs, KindOK, ReqOK, ListPcs, AllKinds
  <2>3. ASSUME NEW h \in Hosts, Honest("cert_stash", k, h) PROVE Honest("cert_request", k, h)'
    <3>1. stash[h] = None /\ Truth(h) /\ Current(k, h)
      BY <2>3 DEF Honest, Whole, Reading
    <3>2. Current(k, h)' /\ \A c : Stopped(h, c)' <=> Stopped(h, c)
      BY <1>3, <3>1 DEF Current, Fetched, Live, Stopped, Serving
    <3>3. Stopped(h, conf[h])
      BY <3>1, SaysStops DEF Truth
    <3>4. Stopped(h, conf'[h]) /\ (stash'[h] # None => h \in DOMAIN k.snap /\ Stopped(h, stash'[h]))
      BY <2>0, <2>1, <3>1, <3>3, StoppedNone
    <3>5. ASSUME h \notin DOMAIN k.snap PROVE Truth(h)'
      <4>1. Like(h)
        BY <1>2, <1>3, <2>0, <2>1, <3>5 DEF Like, Same
      <4> QED
        BY <3>1, <4>1, TruthLike
    <3> QED
      BY <3>2, <3>4, <3>5 DEF Honest, Whole, Backed, Settling, BulkPcs, ConfigurePcs
  <2> QED
    BY <1>1, <1>3, <1>4, <2>1, <2>2, <2>3, TStays DEF From
<1> QED
  BY <1>5, <1>6

\* An access list that the host does not use makes no difference to it.
LEMMA TruthApart ==
    ASSUME NEW h, Truth(h), conf'[h] = conf[h], running'[h] = running[h],
           row'[h].alive = row[h].alive, row'[h].enabled = row[h].enabled, row'[h].set = row[h].set,
           row'[h].meta = row[h].meta, row[h].alive # "live" \/ (~row[h].acl /\ ~row'[h].acl)
    PROVE  Truth(h)'
<1>1. PICK s, t : s = Fetched(h) /\ t = Fetched(h)'
  OBVIOUS
<1>2. /\ t.row.alive = s.row.alive /\ t.row.enabled = s.row.enabled /\ t.row.set = s.row.set
      /\ t.row.meta = s.row.meta /\ (s.row.alive # "live" \/ (~s.row.acl /\ ~t.row.acl))
  BY <1>1 DEF Fetched
<1>3. ASSUME NEW c, Says(s, c) PROVE Says(t, c)
  <2>1. CASE s.row.alive # "live"
    BY <1>2, <1>3, <2>1 DEF Says
  <2>2. CASE ~s.row.acl /\ ~t.row.acl
    <3>1. generateConfig(t) = generateConfig(s)
      BY <1>2, <2>2 DEF generateConfig
    <3> QED
      BY <1>2, <1>3, <3>1 DEF Says
  <2> QED
    BY <1>2, <2>1, <2>2
<1>4. Says(t, conf'[h]) /\ Says(t, running'[h])
  BY <1>1, <1>3 DEF Truth
<1>5. Says(t, conf[h])' /\ Says(t, running[h])'
  BY <1>4 DEF Says, generateConfig, Serving
<1> QED
  BY <1>1, <1>5 DEF Truth

\* The access list's handlers.
LEMMA TListed ==
    ASSUME IInv, RInv, TInv, NEW p \in Procs,
           \/ ListClear(p) \/ ListFill(p) \/ ListFetch(p) \/ ListBuild(p)
           \/ ListGet(p) \/ ListDrop(p) \/ ListDetach(p)
    PROVE  TInv'
<1>1. PICK k : k = loc[p]
  OBVIOUS
<1>2. DOMAIN k = LocFields /\ KindOK(pc[p], k) /\ ReqOK(pc[p], k) /\ RowsOK
  BY <1>1 DEF IInv, ShapeOK, RInv, KindsOK, TInv
<1>3. UNCHANGED <<type, conf, bak, stash, running>> /\ Worse /\ pc[p] \in ListPcs
  BY DEF ListClear, ListFill, ListFetch, ListBuild, ListGet, ListDrop, ListDetach, Keep, KeepFiles, files, Told,
         history, Worse, ListPcs
<1>4. k.kind \in {"list", "unlist"} /\ Touches(k) = Hosts /\ k.bad = {}
  BY <1>2, <1>3, TouchesKind DEF KindOK, ReqOK, AllKinds
<1>5. ASSUME NEW h PROVE Truth(h) => Stopped(h, conf[h]) /\ Stopped(h, running[h])
  BY SaysStops DEF Truth
<1>6. ASSUME NEW h \in Hosts, h \notin Users PROVE ~Live(h) \/ ~row[h].acl
  BY <1>6 DEF Users, TInv
<1>7. ASSUME NEW l \in ListPcs \cup {"reload", "bulk"}, Goto(p, l), loc' = loc,
             \A h \in Hosts : row'[h].acl => type[h] = "proxy_host",
             \A h \in Hosts : Honest(pc[p], k, h) => Honest(l, k, h)'
      PROVE  TInv'
  <2>1. pc'[p] = l /\ loc'[p] = k /\ Others(p)
    BY <1>1, <1>7 DEF IInv, ShapeOK, Goto, Others
  <2>2. ReqOK(l, k)
    BY <1>4, <1>7 DEF ReqOK, ListPcs
  <2> QED
    BY <1>1, <1>3, <1>4, <1>7, <2>1, <2>2, TStays DEF From
<1>8. ASSUME NEW l \in {"list_build", "list_drop"}, NEW r, loc' = [loc EXCEPT ![p] = r], pc' = [pc EXCEPT ![p] = l],
             From(r, k), r.bad = k.bad, UNCHANGED <<row, rules, listed>>,
             \A h \in Hosts : Honest(pc[p], k, h) => Honest(l, r, h)
      PROVE  TInv'
  <2>1. pc'[p] = l /\ loc'[p] = r /\ Others(p)
    BY <1>8 DEF IInv, ShapeOK, Others
  <2>2. ReqOK(l, r)
    BY <1>4, <1>8 DEF ReqOK, ListPcs, From
  <2> QED
    BY <1>1, <1>3, <1>8, <2>1, <2>2, TGoes
<1>9. CASE ListClear(p) \/ ListFill(p)
  <2>1. PICK l : l = IF pc[p] = "list_clear" THEN "list_fill" ELSE "list_fetch"
    OBVIOUS
  <2>2. /\ pc[p] \in {"list_clear", "list_fill"} /\ Goto(p, l) /\ UNCHANGED <<row, listed, loc>>
        /\ l \in {"list_fill", "list_fetch"}
    BY <1>9, <2>1 DEF ListClear, ListFill
  <2>3. \A h \in Hosts : row'[h].acl => type[h] = "proxy_host"
    BY <2>2 DEF TInv
  <2>4. ASSUME NEW h \in Hosts, Honest(pc[p], k, h) PROVE Honest(l, k, h)'
    <3>1. /\ stash[h] = None /\ listed /\ (h \notin Users => Truth(h))
          /\ Stopped(h, conf[h])
      BY <1>5, <2>2, <2>4 DEF Honest, Whole, Previous
    <3>2. Users' = Users /\ \A c : Stopped(h, c)' <=> Stopped(h, c)
      BY <1>3, <2>2 DEF Users, Stopped, Live, Serving
    <3>3. h \notin Users => Truth(h)'
      BY <1>3, <1>6, <2>2, <3>1, TruthApart DEF Live
    <3>4. stash'[h] = None /\ listed' /\ Stopped(h, conf[h])'
      BY <1>3, <2>2, <3>1, <3>2
    <3> QED
      BY <2>2, <3>2, <3>3, <3>4 DEF Honest, Whole, Reading, Backed, Settling, BulkPcs, ConfigurePcs
  <2> QED
    BY <1>7, <2>2, <2>3, <2>4 DEF ListPcs
<1>10. CASE ListFetch(p)
  <2>1. pc[p] = "list_fetch" /\ UNCHANGED <<row, rules, listed>>
    BY <1>10 DEF ListFetch, KeepDb, db
  <2>2. ASSUME NEW h, Honest("list_fetch", k, h)
        PROVE  stash[h] = None /\ listed /\ (h \notin Users => Truth(h)) /\ Stopped(h, conf[h])
    BY <2>2 DEF Honest, Whole, Previous
  <2>3. CASE listed
    <3>0. PICK s : s = [h \in Users |-> Fetched(h)]
      OBVIOUS
    <3>1. PICK r : r = [k EXCEPT !.rules = rules, !.snap = s]
      OBVIOUS
    <3>2. loc' = [loc EXCEPT ![p] = r] /\ pc' = [pc EXCEPT ![p] = "list_build"]
      BY <1>1, <1>10, <2>3, <3>0, <3>1 DEF ListFetch, Goto
    <3>3. From(r, k) /\ r.snap = s /\ r.bad = k.bad
      BY <1>2, <3>1 DEF LocFields, From
    <3>4. ASSUME NEW h \in Hosts, Honest(pc[p], k, h) PROVE Honest("list_build", r, h)
      <4>1. Current(r, h) /\ DOMAIN r.snap = Users
        BY <3>0, <3>3 DEF Current, Users, Fetched
      <4> QED
        BY <2>1, <2>2, <3>4, <4>1 DEF Honest, Whole, Backed, Settling, BulkPcs, ConfigurePcs
    <3> QED
      BY <1>8, <2>1, <3>2, <3>3, <3>4
  <2>4. CASE ~listed
    <3>1. Done(p)
      BY <1>10, <2>4 DEF ListFetch
    <3> QED
      BY <1>1, <1>3, <2>1, <2>2, <2>4, <3>1, TStops
  <2> QED
    BY <2>3, <2>4
<1>11. CASE ListBuild(p)
  <2>1. PICK l : l = IF DOMAIN k.snap = {} THEN "reload" ELSE "bulk"
    OBVIOUS
  <2>2. pc[p] = "list_build" /\ Goto(p, l) /\ UNCHANGED <<row, rules, listed, loc>> /\ l \in {"reload", "bulk"}
    BY <1>1, <1>11, <2>1 DEF ListBuild, Batch, db
  <2>3. \A h \in Hosts : row'[h].acl => type[h] = "proxy_host"
    BY <2>2 DEF TInv
  <2>4. ASSUME NEW h \in Hosts, Honest(pc[p], k, h) PROVE Honest(l, k, h)'
    <3>1. /\ stash[h] = None /\ (h \notin DOMAIN k.snap => Truth(h)) /\ Current(k, h) /\ Stopped(h, conf[h])
      BY <2>2, <2>4 DEF Honest, Whole, Reading, Previous
    <3>2. Honest(l, k, h)
      BY <2>1, <2>2, <3>1 DEF Honest, Whole, Reading, Backed, Settling, BulkPcs, ConfigurePcs, Truth, Previous
    <3>3. Like(h)
      BY <1>3, <2>2 DEF Like, Same
    <3> QED
      BY <3>2, <3>3, HonestLike
  <2> QED
    BY <1>7, <2>2, <2>3, <2>4
<1>12. CASE ListGet(p)
  <2>1. pc[p] = "list_get" /\ UNCHANGED <<row, rules, listed>>
    BY <1>12 DEF ListGet, KeepDb, db
  <2>2. ASSUME NEW h, Honest("list_get", k, h) PROVE stash[h] = None /\ Truth(h)
    BY <2>2 DEF Honest, Whole
  <2>3. CASE listed
    <3>0. PICK s : s = [h \in Users |-> [Fetched(h) EXCEPT !.row.acl = FALSE]]
      OBVIOUS
    <3>1. PICK r : r = [k EXCEPT !.snap = s]
      OBVIOUS
    <3>2. loc' = [loc EXCEPT ![p] = r] /\ pc' = [pc EXCEPT ![p] = "list_drop"]
      BY <1>1, <1>12, <2>3, <3>0, <3>1 DEF ListGet, Goto, Set
    <3>3. From(r, k) /\ r.snap = s /\ r.bad = k.bad
      BY <1>2, <3>1 DEF LocFields, From
    <3>4. ASSUME NEW h \in Hosts, Honest(pc[p], k, h) PROVE Honest("list_drop", r, h)
      <4>1. ASSUME h \in Users PROVE Live(h) /\ s[h].row = [row[h] EXCEPT !.acl = FALSE]
        <5>1. PICK f : f = Fetched(h)
          OBVIOUS
        <5>2. DOMAIN f = {"row", "rules"} /\ f.row = row[h] /\ Live(h)
          BY <4>1, <5>1 DEF Fetched, Users
        <5>3. s[h] = [f EXCEPT !.row.acl = FALSE]
          BY <3>0, <4>1, <5>1
        <5> QED
          BY <5>2, <5>3
      <4>2. Detached(r, h)
        BY <3>0, <3>3, <4>1 DEF Detached
      <4> QED
        BY <2>1, <2>2, <3>4, <4>2 DEF Honest, Reading, Previous, Backed, Settling, BulkPcs
    <3> QED
      BY <1>8, <2>1, <3>2, <3>3, <3>4
  <2>4. CASE ~listed
    <3>1. Done(p)
      BY <1>12, <2>4 DEF ListGet
    <3> QED
      BY <1>1, <1>3, <2>1, <2>2, <3>1, TStops
  <2> QED
    BY <2>3, <2>4
<1>13. CASE ListDrop(p)
  <2>1. pc[p] = "list_drop" /\ Goto(p, "list_detach") /\ UNCHANGED <<row, rules, loc>>
    BY <1>13 DEF ListDrop
  <2>2. \A h \in Hosts : row'[h].acl => type[h] = "proxy_host"
    BY <2>1 DEF TInv
  <2>3. ASSUME NEW h \in Hosts, Honest("list_drop", k, h) PROVE Honest("list_detach", k, h)'
    <3>1. stash[h] = None /\ Truth(h) /\ Detached(k, h) /\ Stopped(h, conf[h])
      BY <1>5, <2>3 DEF Honest, Whole
    <3>2. Detached(k, h)' /\ stash'[h] = None /\ Stopped(h, conf[h])'
      BY <1>3, <2>1, <3>1 DEF Detached, Users, Live, Stopped, Serving
    <3>3. h \notin DOMAIN k.snap => Truth(h)'
      BY <1>3, <1>6, <2>1, <3>1, TruthApart DEF Live, Detached
    <3> QED
      BY <3>2, <3>3 DEF Honest, Whole, Reading, Backed, Settling, BulkPcs, ConfigurePcs
  <2> QED
    BY <1>7, <2>1, <2>2, <2>3 DEF ListPcs
<1>14. CASE ListDetach(p)
  <2>1. PICK l : l = IF DOMAIN k.snap = {} THEN "reload" ELSE "bulk"
    OBVIOUS
  <2>2. /\ pc[p] = "list_detach" /\ Goto(p, l) /\ loc' = loc /\ l \in {"reload", "bulk"}
        /\ row' = [h \in Hosts |-> [row[h] EXCEPT !.acl = FALSE]]
    BY <1>1, <1>14, <2>1 DEF ListDetach, Batch
  <2>3. ASSUME NEW h \in Hosts
        PROVE  /\ row'[h] = [row[h] EXCEPT !.acl = FALSE] /\ row'[h].acl = FALSE /\ row'[h].set = row[h].set
               /\ row'[h].meta = row[h].meta /\ row'[h].enabled = row[h].enabled /\ row'[h].alive = row[h].alive
    BY <1>2, <2>2 DEF RowsOK, RowFields
  <2>4. ASSUME NEW h \in Hosts, Honest("list_detach", k, h) PROVE Honest(l, k, h)'
    <3>1. /\ stash[h] = None /\ (h \notin DOMAIN k.snap => Truth(h)) /\ Detached(k, h)
          /\ Stopped(h, conf[h])
      BY <2>4 DEF Honest, Whole, Previous
    <3>2. stash'[h] = None /\ Stopped(h, conf[h])' /\ Current(k, h)'
      BY <1>3, <2>3, <3>1 DEF Stopped, Current, Detached, Live, Serving
    <3>3. h \notin DOMAIN k.snap => Truth(h)'
      BY <1>3, <1>6, <2>3, <3>1, TruthApart DEF Live, Detached
    <3>4. CASE l = "reload"
      BY <2>1, <3>2, <3>3, <3>4 DEF Honest, Whole, Reading, Previous, Backed, Settling, BulkPcs, ConfigurePcs, Truth
    <3>5. CASE l = "bulk"
      BY <3>2, <3>3, <3>5 DEF Honest, Whole, Reading, Previous, Backed, Settling, BulkPcs, ConfigurePcs
    <3> QED
      BY <2>2, <3>4, <3>5
  <2> QED
    BY <1>7, <2>2, <2>3, <2>4
<1> QED
  BY <1>9, <1>10, <1>11, <1>12, <1>13, <1>14

\* What configure does leaves the other hosts of its request alone.
LEMMA TAside ==
    ASSUME NEW l \in ConfigurePcs \ {"activate"}, NEW m \in ConfigurePcs, NEW k, NEW r, NEW g, Honest(l, k, g), Like(g),
           From(r, k), r.snap = k.snap, g # k.host
    PROVE  Honest(m, r, g)'
<1>1. r.host = k.host
  BY DEF From
<1>2. stash[g] = None /\ Truth(g) /\ Current(k, g)
  BY DEF Honest, Whole, Reading, ConfigurePcs
<1>3. Current(r, g)
  BY <1>2 DEF Current
<1>4. Honest(m, r, g)
  BY <1>1, <1>2, <1>3 DEF Honest, Previous, Backed, Settling, ConfigurePcs, BulkPcs
<1> QED
  BY <1>4, HonestLike

\* A step of configure keeps the invariant if it keeps it for the host it configures.
LEMMA TConfigures ==
    ASSUME IInv, RInv, TInv, NEW p \in Procs, NEW k, NEW h, k = loc[p], h = k.host, pc[p] \in ConfigurePcs \ {"activate"},
           NEW m \in ConfigurePcs, NEW r, pc'[p] = m, loc'[p] = r, Others(p), Worse, type' = type,
           row'[h].acl = row[h].acl, From(r, k), r.snap = k.snap, r.acl = k.acl,
           \A g \in Hosts \ {h} : Like(g),
           Clean(h) /\ Local(pc[p], k, h) /\ Honest(pc[p], k, h) => Honest(m, r, h)'
    PROVE  TInv'
<1>1. KindOK(pc[p], k) /\ ReqOK(pc[p], k)
  BY DEF RInv, KindsOK, TInv
<1>2. h \in Hosts \cap Touches(k)
  BY <1>1, TouchesKind DEF KindOK, ConfigurePcs, HostPcs, HostKinds, AllKinds
<1>3. ASSUME NEW g \in Hosts \cap Touches(loc[p]), Clean(g), Local(pc[p], loc[p], g), Honest(pc[p], loc[p], g)
      PROVE  Honest(m, r, g)'
  <2>1. CASE g = h
    BY <1>3, <2>1
  <2>2. CASE g # h
    BY <1>3, <2>2, TAside
  <2> QED
    BY <2>1, <2>2
<1>4. ReqOK(m, r)
  BY <1>1 DEF ReqOK, From, ConfigurePcs, ListPcs
<1>5. \A g \in Hosts : row'[g].acl => type[g] = "proxy_host"
  BY DEF Like, Same, TInv
<1> QED
  BY <1>2, <1>3, <1>4, <1>5, TStays

\* What is read of a host stays what its row says while its conf is replaced.
LEMMA CurrentKept ==
    ASSUME NEW r, NEW k, NEW h, Current(k, h), r.snap = k.snap, UNCHANGED <<row, rules, listed>>
    PROVE  Current(r, h)' /\ \A c : Stopped(h, c)' <=> Stopped(h, c)
BY DEF Current, Fetched, Live, Stopped, Serving

\* A conf rendered from what was read is what the row says when its outcome is recorded.
LEMMA Recorded ==
    ASSUME NEW h, NEW s, NEW c, Live(h), s.row = row[h], row[h].acl => s.rules = Fetched(h).rules,
           c = generateConfig(s), UNCHANGED <<rules, listed>>,
           row'[h].alive = row[h].alive, row'[h].enabled = row[h].enabled, row'[h].set = row[h].set,
           row'[h].acl = row[h].acl, row'[h].meta \notin {"kept", "off"} \/ ~row[h].enabled
    PROVE  Says(Fetched(h)', c)
<1>1. PICK f, t : f = Fetched(h) /\ t = Fetched(h)'
  OBVIOUS
<1>2. /\ t.row.alive = "live" /\ t.row.enabled = s.row.enabled /\ t.row.set = s.row.set
      /\ t.row.acl = s.row.acl /\ (t.row.meta \notin {"kept", "off"} \/ ~t.row.enabled) /\ t.rules = f.rules
      /\ s.row.acl => s.rules = f.rules
  BY <1>1 DEF Fetched, Live
<1>3. generateConfig(t) = c
  BY <1>2 DEF generateConfig
<1>4. ~t.row.enabled => ~Serving(c)
  BY <1>2 DEF generateConfig, Serving
<1> QED
  BY <1>1, <1>2, <1>3, <1>4 DEF Says

\* So is the previous one, put back, or none.
LEMMA PutBackSaid ==
    ASSUME NEW h, NEW c, NEW v, (v = "kept" /\ c # None) \/ (v = "off" /\ c = None), Stopped(h, c),
           row'[h].alive = row[h].alive, row'[h].enabled = row[h].enabled, row'[h].meta = v
    PROVE  Says(Fetched(h)', c)
<1>1. PICK t : t = Fetched(h)'
  OBVIOUS
<1>2. t.row.alive = row[h].alive /\ t.row.enabled = row[h].enabled /\ t.row.meta = v
  BY <1>1 DEF Fetched
<1> QED
  BY <1>1, <1>2, Nothing DEF Says, Stopped, Live

\* configure: the row tells whether the new conf, the previous one or none is in place.
LEMMA TConfigured ==
    ASSUME IInv, RInv, SInv, TInv, NEW p \in Procs,
           \/ ConfigureTest(p) \/ ConfigureBackup(p) \/ ConfigureDelete(p)
           \/ ConfigureGenerate(p) \/ ConfigureVerify(p) \/ ConfigureReload(p)
    PROVE  TInv'
<1>1. PICK k, h : k = loc[p] /\ h = k.host
  OBVIOUS
<1>2. /\ KindOK(pc[p], k) /\ ReadOK(pc[p], k, type) /\ ReqOK(pc[p], k) /\ RowsOK /\ DOMAIN k = LocFields
      /\ DOMAIN conf = Hosts /\ DOMAIN stash = Hosts /\ DOMAIN bak = Hosts
  BY <1>1 DEF IInv, ShapeOK, RInv, KindsOK, TInv
<1>3. pc[p] \in ConfigurePcs
  BY DEF ConfigurePcs, ConfigureTest, ConfigureBackup, ConfigureDelete, ConfigureGenerate, ConfigureVerify,
         ConfigureReload
<1>4. h \in Hosts /\ h \in Touches(k)
  BY <1>1, <1>2, <1>3, TouchesKind DEF KindOK, ConfigurePcs, HostPcs, HostKinds, AllKinds
<1>5. ASSUME NEW l, Goto(p, l), loc' = loc PROVE pc'[p] = l /\ loc'[p] = k /\ Others(p)
  BY <1>1, <1>5 DEF IInv, ShapeOK, Goto, Others
<1>6. \A g \in Hosts : row'[g] = row[g] => (row'[g].acl => type[g] = "proxy_host")
  BY DEF TInv
<1>7. CASE ConfigureTest(p)
  <2>1. /\ pc[p] = "configure" /\ UNCHANGED <<type, row, rules, listed, conf, bak, stash, running>> /\ Worse
    BY <1>7 DEF ConfigureTest, KeepDb, db, files, Told, Refuse, history, Worse, Keep
  <2>2. \A g \in Hosts : Like(g)
    BY <2>1 DEF Like, Same
  <2>3. CASE test(conf, site)
    <3>1. Goto(p, "backup") /\ loc' = loc
      BY <1>7, <2>3 DEF ConfigureTest
    <3>2. ASSUME Honest("configure", k, h) PROVE Honest("backup", k, h)'
      <4>1. stash[h] = None /\ Current(k, h) /\ Stopped(h, conf[h])
        BY <1>1, <3>2 DEF Honest, Reading, Previous
      <4>2. Honest("backup", k, h)
        BY <1>1, <4>1 DEF Honest, Whole, Backed, Settling, BulkPcs, ConfigurePcs
      <4> QED
        BY <1>4, <2>2, <4>2, HonestLike
    <3> QED
      BY <1>1, <1>3, <1>5, <2>1, <2>2, <3>1, <3>2, TConfigures DEF ConfigurePcs, From
  <2>4. CASE ~test(conf, site)
    <3>1. Done(p) /\ Refuse(p)
      BY <1>7, <2>4 DEF ConfigureTest
    <3> QED
      BY <1>6, <2>1, <2>2, <3>1, TRefuses
  <2> QED
    BY <2>3, <2>4
<1>8. CASE ConfigureBackup(p)
  <2>1. PICK r : r = [k EXCEPT !.had = Had({h})]
    OBVIOUS
  <2>2. /\ pc[p] = "backup" /\ backupConfig({h}) /\ loc' = [loc EXCEPT ![p] = r]
        /\ pc' = [pc EXCEPT ![p] = "clear"] /\ UNCHANGED <<type, conf, row, rules, listed, running>> /\ Worse
    BY <1>1, <1>8, <2>1 DEF ConfigureBackup, Set, Goto, Told, history, Worse, KeepDb, db, Keep
  <2>3. From(r, k) /\ r.snap = k.snap /\ r.had = Had({h}) /\ r.acl = k.acl
    BY <1>2, <2>1 DEF LocFields, From
  <2>4. pc'[p] = "clear" /\ loc'[p] = r /\ Others(p)
    BY <2>2 DEF IInv, ShapeOK, Others
  <2>5. \A g \in Hosts \ {h} : Like(g)
    BY <2>2 DEF Like, Same, backupConfig, Had
  <2>6. ASSUME Honest("backup", k, h) PROVE Honest("clear", r, h)'
    <3>1. stash[h] = None /\ Current(k, h) /\ Stopped(h, conf[h])
      BY <1>1, <2>6 DEF Honest, Reading, Previous
    <3>2. Current(r, h)' /\ \A c : Stopped(h, c)' <=> Stopped(h, c)
      BY <2>2, <2>3, <3>1, CurrentKept
    <3>3. stash'[h] = None /\ (h \in r.had => bak'[h] = conf[h] /\ conf[h] # None)
      BY <1>4, <2>2, <2>3, <3>1 DEF backupConfig, Had
    <3>4. h \in r.had => bak'[h] # None /\ Stopped(h, bak[h])'
      BY <3>1, <3>2, <3>3
    <3>5. r.host = h
      BY <1>1, <2>3 DEF From
    <3> QED
      BY <3>2, <3>3, <3>4, <3>5 DEF Honest, Whole, Previous, Settling, BulkPcs, ConfigurePcs
  <2> QED
    BY <1>1, <2>2, <2>3, <2>4, <2>5, <2>6, TConfigures DEF ConfigurePcs
<1>9. CASE ConfigureDelete(p) \/ ConfigureGenerate(p)
  <2>1. PICK l : l = IF pc[p] = "clear" THEN "generate" ELSE "verify"
    OBVIOUS
  <2>2. /\ pc[p] \in {"clear", "generate"} /\ Goto(p, l) /\ loc' = loc /\ l \in {"generate", "verify"}
        /\ UNCHANGED <<type, bak, row, rules, listed, running>> /\ Worse
        /\ \A g \in Hosts \ {h} : conf'[g] = conf[g] /\ stash'[g] = stash[g]
        /\ stash'[h] \in {stash[h], None}
    BY <1>1, <1>2, <1>4, <1>9, <2>1 DEF ConfigureDelete, ConfigureGenerate, Told, history, Worse, KeepDb, db, Keep
  <2>3. \A g \in Hosts \ {h} : Like(g)
    BY <2>2 DEF Like, Same
  <2>4. ASSUME Honest(pc[p], k, h) PROVE Honest(l, k, h)'
    <3>1. stash[h] = None /\ Current(k, h) /\ (h \in k.had => bak[h] # None /\ Stopped(h, bak[h]))
      BY <1>1, <2>2, <2>4 DEF Honest, Reading, Backed
    <3>2. Current(k, h)' /\ \A c : Stopped(h, c)' <=> Stopped(h, c)
      BY <2>2, <3>1, CurrentKept
    <3>3. stash'[h] = None /\ (h \in k.had => bak'[h] # None /\ Stopped(h, bak[h])')
      BY <2>2, <3>1, <3>2
    <3> QED
      BY <1>1, <2>2, <3>2, <3>3 DEF Honest, Whole, Previous, Settling, BulkPcs, ConfigurePcs
  <2> QED
    BY <1>1, <1>5, <2>2, <2>3, <2>4, TConfigures DEF ConfigurePcs, From
<1>10. CASE ConfigureVerify(p)
  <2>1. /\ pc[p] = "verify" /\ Goto(p, "activate") /\ loc' = loc
        /\ UNCHANGED <<type, stash, rules, listed, running>> /\ Worse
    BY <1>10 DEF ConfigureVerify, Told, history, Worse, Keep
  <2>2. PICK v : /\ row' = [row EXCEPT ![h].meta = v]
                 /\ \/ v = "ok" /\ conf' = conf /\ dropConfigBackup({h})
                    \/ /\ v = IF h \in k.had THEN "kept" ELSE "off"
                       /\ conf' = restoreConfigBackup(h, h \in k.had) /\ dropConfigBackup(k.had)
    <3>1. CASE test(conf, site)
      BY <1>1, <1>10, <3>1 DEF ConfigureVerify
    <3>2. CASE ~test(conf, site)
      BY <1>1, <1>10, <3>2 DEF ConfigureVerify, Outcome
    <3> QED
      BY <3>1, <3>2
  <2>3. /\ \A g \in Hosts \ {h} : row'[g] = row[g]
        /\ row'[h].alive = row[h].alive /\ row'[h].enabled = row[h].enabled /\ row'[h].set = row[h].set
        /\ row'[h].meta = v /\ row'[h].acl = row[h].acl
    BY <1>2, <1>4, <2>2 DEF RowsOK, RowFields
  <2>4. k.had \subseteq {h} /\ h \in DOMAIN k.snap
    BY <1>1, <1>2, <2>1 DEF KindOK, ReadOK
  <2>5. \A g \in Hosts \ {h} : Like(g)
    BY <1>2, <2>1, <2>2, <2>3, <2>4 DEF Like, Same, dropConfigBackup, restoreConfigBackup
  <2>6. ASSUME Local("verify", k, h), Honest("verify", k, h) PROVE Honest("activate", k, h)'
    <3>1. stash[h] = None /\ Current(k, h) /\ (h \in k.had => bak[h] # None /\ Stopped(h, bak[h]))
      BY <1>1, <2>6 DEF Honest, Reading, Backed
    <3>2. Says(Fetched(h)', conf'[h])
      <4>1. CASE v = "ok" /\ conf' = conf
        <5>1. conf'[h] = generateConfig(k.snap[h])
          BY <1>1, <2>6, <4>1 DEF Local, Rendered
        <5>2. Live(h) /\ k.snap[h].row = row[h] /\ (row[h].acl => k.snap[h].rules = Fetched(h).rules)
          BY <2>4, <3>1 DEF Current
        <5> QED
          BY <2>1, <2>3, <4>1, <5>1, <5>2, Recorded
      <4>2. CASE /\ v = IF h \in k.had THEN "kept" ELSE "off"
                 /\ conf' = restoreConfigBackup(h, h \in k.had)
        <5>1. conf'[h] = IF h \in k.had THEN bak[h] ELSE None
          BY <1>2, <1>4, <4>2 DEF restoreConfigBackup
        <5>2. Stopped(h, conf'[h]) /\ ((v = "kept" /\ conf'[h] # None) \/ (v = "off" /\ conf'[h] = None))
          <6>1. CASE h \in k.had
            BY <3>1, <4>2, <5>1, <6>1
          <6>2. CASE h \notin k.had
            BY <4>2, <5>1, <6>2, StoppedNone
          <6> QED
            BY <6>1, <6>2
        <5> QED
          BY <2>3, <5>2, PutBackSaid
      <4> QED
        BY <2>2, <4>1, <4>2
    <3>3. Says(Fetched(h), conf[h])'
      BY <3>2 DEF Says, generateConfig, Serving
    <3> QED
      BY <1>1, <2>1, <3>1, <3>3 DEF Honest, Whole, Reading, Previous, Backed, BulkPcs, ConfigurePcs
  <2> QED
    BY <1>1, <1>5, <2>1, <2>3, <2>5, <2>6, TConfigures DEF ConfigurePcs, From
<1>11. CASE ConfigureReload(p)
  <2>1. /\ pc[p] = "activate" /\ Done(p) /\ UNCHANGED <<type, row, rules, listed, conf, bak, stash>> /\ Worse
        /\ reloadTested(conf)
    BY <1>11 DEF ConfigureReload, KeepDb, db, files, Told, history, Worse, Keep
  <2>2. \A g \in Hosts : Like(g)
    BY <2>1 DEF Like, Same, reloadTested
  <2>3. ASSUME NEW g \in Hosts \cap Touches(k), Clean(g), Honest("activate", k, g)
        PROVE  Truth(g)' /\ stash'[g] = None
    <3>1. ~Taking /\ ~NoneClean
      <4>1. SUFFICES ASSUME NEW q \in Procs, pc[q] \in {"cert_request", "bulk"} PROVE FALSE
        BY <2>3 DEF Taking, NoneClean
      <4>2. Touches(loc[q]) = Hosts
        BY <4>1, OnAll DEF CertPcs, BulkPcs
      <4> QED
        BY <1>1, <2>1, <2>3, <4>1, <4>2 DEF RInv, Sole
    <3>2. running' = conf
      BY <1>1, <2>1, <3>1 DEF SInv, Sound, reloadTested
    <3>3. Says(Fetched(g), conf[g]) /\ stash[g] = None
      BY <1>1, <2>3 DEF Honest, Whole, Settling, Truth, ConfigurePcs
    <3> QED
      BY <2>1, <3>2, <3>3, TruthLoaded
  <2> QED
    BY <1>1, <1>6, <2>1, <2>2, <2>3, TEnds
<1> QED
  BY <1>7, <1>8, <1>9, <1>10, <1>11

\* Rendering fails: nothing is recorded, and nothing is claimed of the host any more.
LEMMA TRenderFailed ==
    ASSUME IInv, RInv, TInv, NEW p \in Procs, ConfigureRenderFails(p)
    PROVE  TInv'
<1>1. PICK k, h : k = loc[p] /\ h = k.host
  OBVIOUS
<1>2. /\ pc[p] = "generate" /\ Done(p) /\ Refuse(p)
      /\ UNCHANGED <<type, row, rules, listed, stash, running>>
      /\ conf' = restoreConfigBackup(h, h \in k.had) /\ dropConfigBackup(k.had)
  BY <1>1 DEF ConfigureRenderFails, KeepDb, db, Keep
<1>3. KindOK(pc[p], k) /\ DOMAIN conf = Hosts
  BY <1>1 DEF IInv, ShapeOK, RInv, KindsOK
<1>4. k.had \subseteq {h} /\ h \in Touches(k)
  BY <1>1, <1>2, <1>3, TouchesKind DEF KindOK, HostPcs, HostKinds, AllKinds
<1>5. \A g \in Hosts \ {h} : Like(g)
  BY <1>2, <1>3, <1>4 DEF Like, Same, dropConfigBackup, restoreConfigBackup
<1>6. \A g \in Hosts : row'[g].acl => type[g] = "proxy_host"
  BY <1>2 DEF TInv
<1> QED
  BY <1>1, <1>2, <1>4, <1>5, <1>6, TRefuses

\* clearHostErrors and markHostsRejected change nothing of a row but its outcome.
LEMMA TMarks ==
    ASSUME NEW p, NEW ok, NEW bad, RowsOK, row' = Marked(p, ok, bad), NEW h \in Hosts
    PROVE  /\ row'[h].alive = row[h].alive /\ row'[h].enabled = row[h].enabled
           /\ row'[h].set = row[h].set /\ row'[h].acl = row[h].acl
           /\ h \notin ok \cup bad => row'[h] = row[h]
           /\ h \in bad => row'[h].meta = IF h \in loc[p].had THEN "kept" ELSE "off"
           /\ h \in ok \ bad /\ loc[p].snap[h].row = row[h] =>
                 row'[h].meta \notin {"kept", "off"} \/ ~row[h].enabled
<1>1. DOMAIN row[h] = RowFields
  BY DEF RowsOK
<1>2. CASE h \in bad
  <2>1. row'[h] = [row[h] EXCEPT !.meta = IF h \in loc[p].had THEN "kept" ELSE "off"]
    BY <1>2 DEF Marked, Outcome
  <2> QED
    BY <1>1, <1>2, <2>1 DEF RowFields
<1>3. CASE h \notin bad
  <2>1. row'[h] = IF h \in ok /\ loc[p].snap[h].row.enabled /\ loc[p].snap[h].row.meta \in {"kept", "off"}
                  THEN [row[h] EXCEPT !.meta = "ok"] ELSE row[h]
    BY <1>3 DEF Marked
  <2> QED
    BY <1>1, <1>3, <2>1 DEF RowFields
<1> QED
  BY <1>2, <1>3

\* The request goes on after the batch, the confs in place being what the rows say.
LEMMA TBatchEnds ==
    ASSUME IInv, RInv, TInv, NEW p \in Procs, NEW k, k = loc[p], pc[p] \in {"bulk_test", "bulk_end"}, Worse, type' = type,
           stash' = stash, \A h \in Hosts : row'[h].acl = row[h].acl,
           NEW l \in {"cert_done", "reload"}, Goto(p, l), loc' = loc,
           \A h \in Hosts : Clean(h) /\ Local(pc[p], k, h) /\ Honest(pc[p], k, h) =>
              /\ Says(Fetched(h)', conf'[h])
              /\ h \notin DOMAIN k.snap => Says(Fetched(h)', running'[h])
    PROVE  TInv'
<1>1. pc'[p] = l /\ loc'[p] = k /\ Others(p)
  BY DEF IInv, ShapeOK, Goto, Others
<1>2. Touches(loc[p]) = Hosts
  BY OnAll DEF BulkPcs
<1>3. ReqOK(pc[p], k)
  BY DEF TInv
<1>4. ReqOK(l, k)
  BY <1>3 DEF ReqOK, ListPcs
<1>5. \A h \in Hosts : row'[h].acl => type[h] = "proxy_host"
  BY DEF TInv
<1>6. ASSUME NEW h \in Hosts, Clean(h), Local(pc[p], k, h), Honest(pc[p], k, h) PROVE Honest(l, k, h)'
  <2>1. stash'[h] = None
    BY <1>6 DEF Honest
  <2>2. Says(Fetched(h), conf[h])' /\ (h \notin DOMAIN k.snap => Says(Fetched(h), running[h])')
    <3>1. Says(Fetched(h)', conf'[h]) /\ (h \notin DOMAIN k.snap => Says(Fetched(h)', running'[h]))
      BY <1>6
    <3> QED
      BY <3>1 DEF Says, generateConfig, Serving
  <2> QED
    BY <2>1, <2>2 DEF Honest, Whole, Reading, Previous, Backed, BulkPcs, ConfigurePcs
<1> QED
  BY <1>1, <1>2, <1>4, <1>5, <1>6, TStays DEF From

\* The batch is backed up, rendered and tested.
LEMMA TBatched ==
    ASSUME IInv, RInv, SInv, TInv, NEW p \in Procs, BulkBackup(p) \/ BulkGenerate(p) \/ BulkTest(p)
    PROVE  TInv'
<1>1. PICK k, B : k = loc[p] /\ B = DOMAIN k.snap
  OBVIOUS
<1>2. /\ KindOK(pc[p], k) /\ ReqOK(pc[p], k) /\ RowsOK /\ DOMAIN k = LocFields
      /\ DOMAIN conf = Hosts /\ DOMAIN stash = Hosts /\ DOMAIN bak = Hosts
  BY <1>1 DEF IInv, ShapeOK, RInv, KindsOK, TInv
<1>3. pc[p] \in {"bulk", "bulk_generate", "bulk_test"}
  BY DEF BulkBackup, BulkGenerate, BulkTest
<1>4. Touches(k) = Hosts /\ k.bad = {}
  BY <1>1, <1>2, <1>3, OnAll DEF BulkPcs, ReqOK
<1>5. ASSUME NEW l, Goto(p, l), loc' = loc PROVE pc'[p] = l /\ loc'[p] = k /\ Others(p)
  BY <1>1, <1>5 DEF IInv, ShapeOK, Goto, Others
<1>6. \A g \in Hosts : row'[g] = row[g] => (row'[g].acl => type[g] = "proxy_host")
  BY DEF TInv
<1>7. CASE BulkBackup(p)
  <2>1. PICK r : r = [k EXCEPT !.had = Had(B)]
    OBVIOUS
  <2>2. /\ pc[p] = "bulk" /\ backupConfig(B) /\ loc' = [loc EXCEPT ![p] = r] /\ Worse
        /\ pc' = [pc EXCEPT ![p] = "bulk_generate"] /\ UNCHANGED <<type, conf, row, rules, listed, running>>
    BY <1>1, <1>7, <2>1 DEF BulkBackup, Batch, Set, Goto, Told, history, Worse, KeepDb, db, Keep
  <2>3. From(r, k) /\ r.snap = k.snap /\ r.had = Had(B) /\ r.acl = k.acl /\ r.bad = k.bad
    BY <1>2, <2>1 DEF LocFields, From
  <2>4. ReqOK("bulk_generate", r)
    BY <1>2, <1>4, <2>3 DEF ReqOK, From
  <2>5. pc'[p] = "bulk_generate" /\ loc'[p] = r /\ Others(p)
    BY <2>2 DEF IInv, ShapeOK, Others
  <2>6. ASSUME NEW h \in Hosts, Honest("bulk", k, h) PROVE Honest("bulk_generate", r, h)'
    <3>1. /\ stash[h] # None => h \in B /\ Stopped(h, stash[h])
          /\ h \notin B => Truth(h)
          /\ Current(k, h) /\ Stopped(h, conf[h])
      BY <1>1, <2>6 DEF Honest, Whole, Reading, Previous, BulkPcs
    <3>2. Current(r, h)' /\ \A c : Stopped(h, c)' <=> Stopped(h, c)
      BY <2>2, <2>3, <3>1, CurrentKept
    <3>3. conf[h] = None \/ stash[h] = None
      BY DEF SInv, StashInv
    <3>4. stash'[h] = None
      BY <2>2, <3>1, <3>3 DEF backupConfig
    <3>5. h \in B /\ h \in r.had => bak'[h] # None /\ Stopped(h, bak'[h])
      BY <2>2, <2>3, <3>1 DEF backupConfig, Had
    <3>6. h \in B /\ h \in r.had => bak'[h] # None /\ Stopped(h, bak[h])'
      BY <3>2, <3>5
    <3>7. h \notin B => Truth(h)'
      BY <2>2, <3>1, TruthStays
    <3>8. DOMAIN r.snap = B
      BY <1>1, <2>3
    <3> QED
      BY <3>2, <3>4, <3>6, <3>7, <3>8 DEF Honest, Whole, Previous, Backed, Settling, BulkPcs, ConfigurePcs
  <2> QED
    BY <1>1, <1>4, <1>6, <2>2, <2>3, <2>4, <2>5, <2>6, TStays
<1>8. CASE BulkGenerate(p)
  <2>1. /\ pc[p] = "bulk_generate" /\ Goto(p, "bulk_test") /\ loc' = loc
        /\ conf' = [h \in Hosts |-> IF h \in B THEN generateConfig(k.snap[h]) ELSE conf[h]]
        /\ UNCHANGED <<type, bak, stash, row, rules, listed, running>> /\ Worse
    BY <1>1, <1>8 DEF BulkGenerate, Batch, Told, history, Worse, KeepDb, db, Keep
  <2>2. ReqOK("bulk_test", k)
    BY <1>2, <1>4 DEF ReqOK
  <2>3. ASSUME NEW h \in Hosts, Honest("bulk_generate", k, h) PROVE Honest("bulk_test", k, h)'
    <3>1. /\ stash[h] = None /\ (h \notin B => Truth(h)) /\ Current(k, h)
          /\ h \in B /\ h \in k.had => bak[h] # None /\ Stopped(h, bak[h])
      BY <1>1, <2>3 DEF Honest, Whole, Reading, Backed, BulkPcs
    <3>2. Current(k, h)' /\ \A c : Stopped(h, c)' <=> Stopped(h, c)
      BY <2>1, <3>1, CurrentKept
    <3>3. stash'[h] = None /\ (h \in B /\ h \in k.had => bak'[h] # None /\ Stopped(h, bak[h])')
      BY <2>1, <3>1, <3>2
    <3>4. h \notin B => Truth(h)'
      BY <2>1, <3>1, TruthStays
    <3> QED
      BY <1>1, <3>2, <3>3, <3>4 DEF Honest, Whole, Previous, Backed, Settling, BulkPcs, ConfigurePcs
  <2> QED
    BY <1>1, <1>4, <1>5, <1>6, <2>1, <2>2, <2>3, TStays DEF From
<1>9. CASE BulkTest(p)
  <2>1. pc[p] = "bulk_test" /\ UNCHANGED <<type, stash, rules, listed, running>>
    BY <1>9 DEF BulkTest, Keep
  <2>2. ASSUME NEW h \in Hosts, Honest("bulk_test", k, h)
        PROVE  /\ stash[h] = None /\ (h \notin B => Truth(h)) /\ Current(k, h)
               /\ h \in B /\ h \in k.had => bak[h] # None /\ Stopped(h, bak[h])
    BY <1>1, <2>2 DEF Honest, Whole, Reading, Backed, BulkPcs
  <2>3. CASE test(conf, site)
    <3>0. PICK ok, bad : ok = B /\ bad = {}
      OBVIOUS
    <3>1. row' = Marked(p, ok, bad) /\ AfterBulk(p, TRUE) /\ conf' = conf /\ Worse
      BY <1>1, <1>9, <2>3, <3>0 DEF BulkTest, Batch, Told, history, Worse
    <3>2. PICK l \in {"cert_done", "reload"} : Goto(p, l) /\ loc' = loc
      BY <3>1 DEF AfterBulk
    <3>3. ASSUME NEW h \in Hosts
          PROVE  /\ row'[h].alive = row[h].alive /\ row'[h].enabled = row[h].enabled
                 /\ row'[h].set = row[h].set /\ row'[h].acl = row[h].acl
                 /\ h \notin B => row'[h] = row[h]
                 /\ h \in B /\ k.snap[h].row = row[h] => row'[h].meta \notin {"kept", "off"} \/ ~row[h].enabled
      BY <1>1, <1>2, <3>0, <3>1, TMarks
    <3>4. ASSUME NEW h \in Hosts, Local("bulk_test", k, h), Honest("bulk_test", k, h)
          PROVE  /\ Says(Fetched(h)', conf'[h])
                 /\ h \notin DOMAIN k.snap => Says(Fetched(h)', running'[h])
      <4>1. CASE h \in B
        <5>1. conf'[h] = generateConfig(k.snap[h])
          BY <1>1, <3>1, <3>4, <4>1 DEF Local, Rendered
        <5>2. Live(h) /\ k.snap[h].row = row[h] /\ (row[h].acl => k.snap[h].rules = Fetched(h).rules)
          BY <1>1, <2>2, <3>4, <4>1 DEF Current
        <5> QED
          BY <1>1, <2>1, <3>3, <4>1, <5>1, <5>2, Recorded
      <4>2. CASE h \notin B
        <5>1. Fetched(h)' = Fetched(h)
          BY <2>1, <3>3, <4>2 DEF Fetched
        <5> QED
          BY <2>1, <2>2, <3>1, <3>4, <4>2, <5>1 DEF Truth
      <4> QED
        BY <4>1, <4>2
    <3> QED
      BY <1>1, <2>1, <3>1, <3>2, <3>3, <3>4, TBatchEnds
  <2>4. CASE ~test(conf, site) /\ test(putBack(p, B), site)
    <3>1. PICK r : r = [k EXCEPT !.left = B]
      OBVIOUS
    <3>2. /\ conf' = putBack(p, B) /\ UNCHANGED <<bak, row>> /\ Worse
          /\ loc' = [loc EXCEPT ![p] = r] /\ pc' = [pc EXCEPT ![p] = "bulk_each"]
      BY <1>1, <1>9, <2>4, <3>1 DEF BulkTest, Batch, Set, Goto, Told, history, Worse
    <3>3. /\ From(r, k) /\ r.snap = k.snap /\ r.had = k.had /\ r.bad = k.bad /\ r.acl = k.acl
      BY <1>2, <3>1 DEF LocFields, From
    <3>4. ReqOK("bulk_each", r)
      BY <1>2, <1>4, <3>3 DEF ReqOK, From, ListPcs
    <3>5. pc'[p] = "bulk_each" /\ loc'[p] = r /\ Others(p)
      BY <3>2 DEF IInv, ShapeOK, Others
    <3>6. ASSUME NEW h \in Hosts, Honest("bulk_test", k, h) PROVE Honest("bulk_each", r, h)'
      <4>1. Current(r, h)' /\ \A c : Stopped(h, c)' <=> Stopped(h, c)
        BY <2>1, <2>2, <3>2, <3>3, <3>6, CurrentKept
      <4>2. stash'[h] = None /\ (h \in B /\ h \in r.had => bak'[h] # None /\ Stopped(h, bak[h])')
        BY <2>1, <2>2, <3>2, <3>3, <3>6, <4>1
      <4>3. h \notin B => Truth(h)'
        <5>1. h \notin B => conf'[h] = conf[h]
          BY <3>2 DEF putBack
        <5> QED
          BY <2>1, <2>2, <3>2, <3>6, <5>1, TruthStays
      <4>4. DOMAIN r.snap = B /\ r.bad = {}
        BY <1>1, <1>4, <3>3
      <4> QED
        BY <4>1, <4>2, <4>3, <4>4 DEF Honest, Whole, Previous, Backed, Settling, BulkPcs, ConfigurePcs
    <3> QED
      BY <1>1, <1>4, <1>6, <2>1, <3>2, <3>3, <3>4, <3>5, <3>6, TStays
  <2>5. CASE ~test(conf, site) /\ ~test(putBack(p, B), site)
    <3>1. row' = row /\ AfterBulk(p, FALSE) /\ Refuse(p)
      BY <1>1, <1>9, <2>5 DEF BulkTest, Batch
    <3>2. CASE Done(p)
      BY <1>1, <1>4, <1>6, <2>1, <3>1, <3>2, TRefuses
    <3>3. CASE Goto(p, "cert_done") /\ loc' = loc
      <4>1. Worse /\ \A h \in Hosts : ~Clean(h)'
        BY <1>1, <1>4, <3>1 DEF Refuse, Clean, Worse
      <4>2. pc'[p] = "cert_done" /\ loc'[p] = k /\ Others(p)
        BY <1>5, <3>3
      <4>3. ReqOK("cert_done", k)
        BY <1>2 DEF ReqOK, ListPcs
      <4> QED
        BY <1>1, <1>4, <1>6, <2>1, <3>1, <4>1, <4>2, <4>3, TKept
    <3> QED
      BY <3>1, <3>2, <3>3 DEF AfterBulk
  <2> QED
    BY <2>3, <2>4, <2>5
<1> QED
  BY <1>7, <1>8, <1>9

\* After a refused batch each host is tried alone, and its row tells how that went.
LEMMA TTriedAlone ==
    ASSUME IInv, RInv, SInv, TInv, NEW p \in Procs, BulkEach(p) \/ BulkEnd(p)
    PROVE  TInv'
<1>1. PICK k, B : k = loc[p] /\ B = DOMAIN k.snap
  OBVIOUS
<1>2. /\ KindOK(pc[p], k) /\ ReqOK(pc[p], k) /\ RowsOK /\ DOMAIN k = LocFields
      /\ DOMAIN conf = Hosts /\ DOMAIN stash = Hosts /\ DOMAIN bak = Hosts
  BY <1>1 DEF IInv, ShapeOK, RInv, KindsOK, TInv
<1>3. pc[p] \in {"bulk_each", "bulk_end"}
  BY DEF BulkEach, BulkEnd
<1>4. Touches(k) = Hosts
  BY <1>1, <1>3, OnAll DEF BulkPcs
<1>5. ASSUME NEW h \in Hosts, Honest(pc[p], k, h)
      PROVE  /\ stash[h] = None /\ (h \notin B => Truth(h)) /\ Current(k, h)
             /\ h \in B /\ h \in k.had => bak[h] # None /\ Stopped(h, bak[h])
             /\ h \in k.bad => conf[h] = IF h \in k.had THEN bak[h] ELSE None
  BY <1>1, <1>3, <1>5 DEF Honest, Whole, Reading, Backed, BulkPcs
<1>6. CASE BulkEach(p)
  <2>1. pc[p] = "bulk_each" /\ UNCHANGED <<type, bak, stash, row, rules, listed, running>> /\ Worse
    BY <1>6 DEF BulkEach, Told, history, Worse, KeepDb, db, Keep
  <2>2. PICK h \in k.left :
           LET new == [conf EXCEPT ![h] = generateConfig(k.snap[h])] IN
           /\ conf' = IF test(new, site) THEN new ELSE putBack(p, {h})
           /\ loc' = [loc EXCEPT ![p].left = @ \ {h},
                                 ![p].bad = IF test(new, site) THEN @ ELSE @ \cup {h}]
           /\ pc' = [pc EXCEPT ![p] = IF k.left = {h} THEN "bulk_end" ELSE "bulk_each"]
    BY <1>1, <1>6 DEF BulkEach, Goto
  <2>3. PICK new : new = [conf EXCEPT ![h] = generateConfig(k.snap[h])]
    OBVIOUS
  <2>4. PICK l : l = IF k.left = {h} THEN "bulk_end" ELSE "bulk_each"
    OBVIOUS
  <2>5. PICK r : r = [k EXCEPT !.left = @ \ {h}, !.bad = IF test(new, site) THEN @ ELSE @ \cup {h}]
    OBVIOUS
  <2>6. l \in {"bulk_each", "bulk_end"} /\ pc' = [pc EXCEPT ![p] = l] /\ loc' = [loc EXCEPT ![p] = r]
    BY <1>1, <2>2, <2>3, <2>4, <2>5
  <2>7. /\ From(r, k) /\ r.snap = k.snap /\ r.had = k.had /\ r.acl = k.acl /\ r.left = k.left \ {h}
        /\ r.bad = IF test(new, site) THEN k.bad ELSE k.bad \cup {h}
    BY <1>2, <2>5 DEF LocFields, From
  <2>8. h \in B /\ k.bad \cap k.left = {} /\ k.bad \subseteq B
    BY <1>1, <1>2, <2>1, <2>2 DEF KindOK, ReqOK
  <2>9. ReqOK(l, r)
    BY <1>1, <1>2, <2>6, <2>7, <2>8 DEF ReqOK, From, ListPcs
  <2>10. pc'[p] = l /\ loc'[p] = r /\ Others(p)
    BY <2>6 DEF IInv, ShapeOK, Others
  <2>11. /\ \A g \in Hosts \ {h} : conf'[g] = conf[g]
         /\ ~test(new, site) /\ h \in Hosts => conf'[h] = IF h \in k.had THEN bak[h] ELSE None
    <3>1. CASE test(new, site)
      <4>1. conf' = new
        BY <2>2, <2>3, <3>1
      <4> QED
        BY <1>2, <2>3, <3>1, <4>1
    <3>2. CASE ~test(new, site)
      <4>1. conf' = putBack(p, {h})
        BY <2>2, <2>3, <3>2
      <4> QED
        BY <1>1, <3>2, <4>1 DEF putBack
    <3> QED
      BY <3>1, <3>2
  <2>12. ASSUME NEW g \in Hosts, Honest("bulk_each", k, g) PROVE Honest(l, r, g)'
    <3>0. /\ stash[g] = None /\ (g \notin B => Truth(g)) /\ Current(k, g)
          /\ g \in B /\ g \in k.had => bak[g] # None /\ Stopped(g, bak[g])
          /\ g \in k.bad => conf[g] = IF g \in k.had THEN bak[g] ELSE None
      BY <1>5, <2>1, <2>12
    <3>1. Current(r, g)' /\ \A c : Stopped(g, c)' <=> Stopped(g, c)
      BY <2>1, <2>7, <3>0, CurrentKept
    <3>2. stash'[g] = None /\ (g \in B /\ g \in r.had => bak'[g] # None /\ Stopped(g, bak[g])')
      BY <2>1, <2>7, <3>0, <3>1
    <3>3. g \notin B => Truth(g)'
      BY <2>1, <2>8, <2>11, <3>0, TruthStays
    <3>4. g \in r.bad => conf'[g] = IF g \in r.had THEN bak'[g] ELSE None
      <4>1. CASE g = h
        BY <2>1, <2>2, <2>7, <2>8, <2>11, <4>1
      <4>2. CASE g # h
        BY <2>1, <2>7, <2>11, <3>0, <4>2
      <4> QED
        BY <4>1, <4>2
    <3>5. DOMAIN r.snap = B
      BY <1>1, <2>7
    <3> QED
      BY <2>6, <3>1, <3>2, <3>3, <3>4, <3>5 DEF Honest, Whole, Previous, Backed, Settling, BulkPcs, ConfigurePcs
  <2>13. \A g \in Hosts : row'[g].acl => type[g] = "proxy_host"
    BY <2>1 DEF TInv
  <2> QED
    BY <1>1, <1>4, <2>1, <2>7, <2>9, <2>10, <2>12, <2>13, TStays
<1>7. CASE BulkEnd(p)
  <2>0. PICK ok, bad : ok = B \ k.bad /\ bad = k.bad
    OBVIOUS
  <2>1. /\ pc[p] = "bulk_end" /\ row' = Marked(p, ok, bad) /\ AfterBulk(p, bad = {})
        /\ UNCHANGED <<type, conf, stash, rules, listed>> /\ Worse
        /\ IF bad # {} THEN reloadTested(conf) ELSE UNCHANGED running
    BY <1>1, <1>7, <2>0 DEF BulkEnd, Batch, Told, history, Worse, Keep
  <2>2. running' = IF bad # {} THEN conf ELSE running
    BY <1>1, <2>1 DEF SInv, Sound, reloadTested
  <2>3. ASSUME NEW h \in Hosts
        PROVE  /\ row'[h].alive = row[h].alive /\ row'[h].enabled = row[h].enabled
               /\ row'[h].set = row[h].set /\ row'[h].acl = row[h].acl
               /\ h \notin ok \cup bad => row'[h] = row[h]
               /\ h \in bad => row'[h].meta = IF h \in k.had THEN "kept" ELSE "off"
               /\ h \in ok \ bad /\ k.snap[h].row = row[h] => row'[h].meta \notin {"kept", "off"} \/ ~row[h].enabled
    BY <1>1, <1>2, <2>1, TMarks
  <2>4. k.left = {} /\ bad \subseteq B
    BY <1>1, <1>2, <2>0, <2>1 DEF KindOK, ReqOK
  <2>5. ASSUME NEW h \in Hosts, Local("bulk_end", k, h), Honest("bulk_end", k, h)
        PROVE  /\ Says(Fetched(h)', conf[h])
               /\ h \notin DOMAIN k.snap => Says(Fetched(h)', running'[h])
    <3>0. /\ stash[h] = None /\ (h \notin B => Truth(h)) /\ Current(k, h)
          /\ h \in B /\ h \in k.had => bak[h] # None /\ Stopped(h, bak[h])
          /\ h \in k.bad => conf[h] = IF h \in k.had THEN bak[h] ELSE None
      BY <1>5, <2>1, <2>5
    <3>1. CASE h \in bad
      <4>1. conf[h] = IF h \in k.had THEN bak[h] ELSE None
        BY <2>0, <3>0, <3>1
      <4>2. PICK v : v = IF h \in k.had THEN "kept" ELSE "off"
        OBVIOUS
      <4>3. Stopped(h, conf[h]) /\ ((v = "kept" /\ conf[h] # None) \/ (v = "off" /\ conf[h] = None))
        <5>1. CASE h \in k.had
          BY <2>4, <3>0, <3>1, <4>1, <4>2, <5>1
        <5>2. CASE h \notin k.had
          BY <4>1, <4>2, <5>2, StoppedNone
        <5> QED
          BY <5>1, <5>2
      <4>4. row'[h].meta = v
        BY <2>3, <3>1, <4>2
      <4> QED
        BY <1>1, <2>3, <2>4, <3>1, <4>3, <4>4, PutBackSaid
    <3>2. CASE h \in ok
      <4>1. conf[h] = generateConfig(k.snap[h])
        BY <1>1, <2>0, <2>4, <2>5, <3>2 DEF Local, Rendered
      <4>2. Live(h) /\ k.snap[h].row = row[h] /\ (row[h].acl => k.snap[h].rules = Fetched(h).rules)
        BY <1>1, <2>0, <3>0, <3>2 DEF Current
      <4>3. row'[h].meta \notin {"kept", "off"} \/ ~row[h].enabled
        BY <2>0, <2>3, <3>2, <4>2
      <4>4. Says(Fetched(h)', conf[h])
        BY <2>1, <2>3, <4>1, <4>2, <4>3, Recorded
      <4> QED
        BY <1>1, <2>0, <3>2, <4>4
    <3>3. CASE h \notin B
      <4>1. Fetched(h)' = Fetched(h)
        BY <2>0, <2>1, <2>3, <2>4, <3>3 DEF Fetched
      <4> QED
        BY <2>2, <3>0, <3>3, <4>1 DEF Truth
    <3> QED
      BY <2>0, <3>1, <3>2, <3>3
  <2>6. ASSUME NEW l \in {"cert_done", "reload"}, Goto(p, l), loc' = loc PROVE TInv'
    BY <1>1, <2>1, <2>3, <2>5, <2>6, TBatchEnds
  <2>7. CASE bad # {} /\ Done(p)
    <3>1. ASSUME NEW h \in Hosts, Local("bulk_end", k, h), Honest("bulk_end", k, h)
          PROVE  Truth(h)' /\ stash'[h] = None
      <4>1. Says(Fetched(h)', conf[h]) /\ conf' = conf /\ running' = conf
        BY <2>1, <2>2, <2>5, <2>7, <3>1
      <4>2. stash'[h] = None
        BY <1>5, <2>1, <3>1
      <4> QED
        BY <4>1, <4>2 DEF Truth, Says, generateConfig, Serving
    <3>2. \A h \in Hosts : row'[h].acl => type[h] = "proxy_host"
      BY <2>3 DEF TInv
    <3> QED
      BY <1>1, <1>4, <2>1, <2>7, <3>1, <3>2, TEnds
  <2> QED
    BY <2>1, <2>6, <2>7 DEF AfterBulk
<1> QED
  BY <1>6, <1>7

\* A restart in the middle of a save counts as a failure of that save.
LEMMA TRestarted == ASSUME IInv, RInv, TInv, Restart PROVE TInv'
<1>1. /\ pc' = [p \in Procs |-> "idle"] /\ loc' = [p \in Procs |-> Idle]
      /\ UNCHANGED <<type, row, rules, listed, conf, bak, stash, raced>>
  BY DEF Restart, KeepDb, db, files
<1>2. \/ /\ running' \in {running, conf} /\ refused \subseteq refused'
         /\ \A p \in Procs : \A h \in Hosts \cap Touches(loc[p]) : h \in refused'
      \/ Hosts \subseteq refused'
  BY DEF Restart
<1>3. \A p \in Procs : pc'[p] = "idle" /\ loc'[p] = Idle /\ Touches(loc'[p]) = {}
  BY <1>1, IdleTouches
<1>4. ASSUME NEW p \in Procs PROVE ReqOK(pc[p], loc[p])'
  <2>1. Idle.kind = None
    BY DEF Idle, Fresh
  <2> QED
    BY <1>3, <2>1, HostAssumption DEF ReqOK, ListPcs, HostAssumption, AllKinds, Idle, Fresh
<1>5. \A h \in Hosts : row'[h].acl => type'[h] = "proxy_host"
  BY <1>1 DEF TInv
<1>6. ASSUME NEW h \in Hosts, Clean(h)' PROVE Truth(h)' /\ stash'[h] = None
  <2>1. Clean(h) /\ Untouched(h) /\ running' \in {running, conf}
    BY <1>1, <1>2, <1>6 DEF Clean, Untouched
  <2>2. Truth(h) /\ stash[h] = None
    BY <2>1 DEF TInv
  <2> QED
    BY <1>1, <2>1, <2>2, TruthStays
<1> QED
  BY <1>3, <1>4, <1>5, <1>6 DEF TInv

\* At the start nginx serves the hosts that exist, with the settings in their rows.
LEMMA TInitially == Init => TInv
<1> SUFFICES ASSUME Init PROVE TInv
  OBVIOUS
<1>1. /\ pc = [p \in Procs |-> "idle"] /\ loc = [p \in Procs |-> Idle]
      /\ DOMAIN conf = Hosts /\ DOMAIN row = Hosts /\ running = conf /\ \A h \in Hosts : stash[h] = None
  BY DEF Init
<1>2. \A p \in Procs : pc[p] = "idle" /\ loc[p] = Idle /\ Touches(loc[p]) = {}
  BY <1>1, IdleTouches
<1>3. ASSUME NEW p \in Procs PROVE ReqOK(pc[p], loc[p])
  <2>1. Idle.kind = None
    BY DEF Idle, Fresh
  <2> QED
    BY <1>2, <2>1, HostAssumption DEF ReqOK, ListPcs, HostAssumption, AllKinds
<1>4. ASSUME NEW h \in Hosts
      PROVE  /\ row[h].acl => type[h] = "proxy_host"
             /\ Live(h) => row[h].enabled /\ row[h].meta = "ok"
  <2>1. CASE h \in Existing
    BY <2>1 DEF Init
  <2>2. CASE h \notin Existing
    BY <2>2 DEF Init, NoRow, Live
  <2> QED
    BY <2>1, <2>2
<1>5. ASSUME NEW h \in Hosts PROVE Truth(h)
  <2>1. PICK s : s = Fetched(h)
    OBVIOUS
  <2>2. s.row = row[h]
    BY <2>1 DEF Fetched
  <2>3. conf[h] = IF Live(h) THEN generateConfig(s) ELSE None
    BY <2>1 DEF Init
  <2>4. Says(s, conf[h])
    BY <1>4, <2>2, <2>3, Nothing DEF Says, Live
  <2> QED
    BY <1>1, <2>1, <2>4 DEF Truth
<1> QED
  BY <1>1, <1>2, <1>3, <1>4, <1>5 DEF TInv

\* Every step keeps the invariant.
LEMMA TInductive == IInv /\ RInv /\ SInv /\ TInv /\ [Next]_vars => TInv'
<1> SUFFICES ASSUME IInv, RInv, SInv, TInv, [Next]_vars PROVE TInv'
  OBVIOUS
<1>1. ASSUME NEW p \in Procs, Receive(p) \/ Step(p) PROVE TInv'
  BY <1>1, TReceived, TReads, TReloaded, TListed, TPatched, TTakenOut, TConfigured, TRenderFailed, TBatched,
     TTriedAlone DEF Step
<1>2. CASE Restart
  BY <1>2, TRestarted
<1>3. CASE UNCHANGED vars
  <2>1. /\ type' = type /\ row' = row /\ rules' = rules /\ listed' = listed /\ running' = running
        /\ conf' = conf /\ bak' = bak /\ stash' = stash
        /\ pc' = pc /\ loc' = loc /\ raced' = raced /\ refused' = refused
    BY <1>3 DEF vars, db, files, history
  <2>2. \A h \in Hosts : Like(h)
    BY <2>1 DEF Like, Same
  <2>3. ASSUME NEW p \in Procs PROVE ReqOK(pc[p], loc[p])'
    BY <2>1 DEF TInv, ReqOK
  <2>4. ASSUME NEW p \in Procs, NEW h \in Hosts \cap Touches(loc'[p]), Clean(h)'
        PROVE  Honest(pc[p], loc[p], h)'
    <3>1. PICK l, r : l = pc[p] /\ r = loc[p]
      OBVIOUS
    <3>2. Honest(l, r, h)
      BY <2>1, <2>4, <3>1 DEF TInv, Clean
    <3>3. Honest(l, r, h)'
      BY <2>2, <3>2, HonestLike
    <3>4. pc'[p] = l /\ loc'[p] = r
      BY <2>1, <3>1
    <3> QED
      BY <3>3, <3>4 DEF Honest, Whole, Current, Previous, Backed, Settling, Detached
  <2>5. ASSUME NEW h \in Hosts, Clean(h)', Untouched(h)' PROVE Truth(h)' /\ stash'[h] = None
    BY <2>1, <2>2, <2>5, TruthLike DEF TInv, Clean, Untouched
  <2>6. \A h \in Hosts : row'[h].acl => type'[h] = "proxy_host"
    BY <2>1 DEF TInv
  <2> QED
    BY <2>3, <2>4, <2>5, <2>6 DEF TInv
<1> QED
  BY <1>1, <1>2, <1>3 DEF Next

\* For any number of hosts, overlapping requests and restarts: when no request works on a
\* host, and none of its saves raced, failed or was cut short, nginx_online and nginx_err in
\* its row tell what nginx serves of it: the saved settings with the access list's current
\* rules, some earlier conf, or nothing; a disabled or deleted host is not served (configure
\* and markHostsRejected in nginx.js, disable and delete in proxy-host.js).
THEOREM AlwaysTruthful == Spec => []MetaTruthful
<1>1. TInv => MetaTruthful
  <2> SUFFICES ASSUME TInv, NEW h \in Hosts, Settled(h)
               PROVE  IF Live(h) /\ row[h].enabled
                      THEN CASE row[h].meta = "ok" -> running[h] = generateConfig(Fetched(h))
                             [] row[h].meta = "kept" -> running[h] # None
                             [] row[h].meta = "off" -> ~Serving(running[h])
                             [] OTHER -> TRUE
                      ELSE ~Serving(running[h])
    BY DEF MetaTruthful
  <2>1. Clean(h) /\ Untouched(h)
    BY DEF Settled, Clean, Untouched
  <2>2. Says(Fetched(h), running[h])
    BY <2>1 DEF TInv, Truth
  <2>3. Fetched(h).row = row[h]
    BY DEF Fetched
  <2> QED
    BY <2>2, <2>3 DEF Says, Live
<1> QED
  BY <1>1, Initially, Inductive, RInitially, RInductive, SInitially, SInductive, TInitially, TInductive, PTL DEF Spec

=============================================================================
