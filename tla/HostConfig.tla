------------------------------ MODULE HostConfig ------------------------------
(***************************************************************************)
(* Hosts and their nginx configuration: the handlers of proxy, redirection *)
(* and dead hosts and streams, of an access list and of the default site,  *)
(* the HTTP certificate request, and nginx.js, whose file steps all run    *)
(* behind one lock.  The database rows are not behind that lock.           *)
(*                                                                         *)
(* A host's saved settings are one value; nginx -t refuses some of them.   *)
(* The .err copy of a refused conf is written and never read: left out.    *)
(***************************************************************************)
EXTENDS Naturals, FiniteSets, FiniteSetsExt

CONSTANTS
    Procs,          \* slots for requests that overlap
    Hosts,
    Typings,        \* which types the hosts may have
    Settings,       \* what can be saved for a host
    Rejected,       \* settings nginx -t refuses
    Bodies,         \* what a save may send: settings, whether the list guards the host,
                    \*    whether a certificate is requested along
    Name,           \* settings -> domain name, or listening port of a stream
    Existing,       \* hosts that exist at the start
    Guarded,        \* those of them that use the access list
    First,          \* host -> its settings at the start or at creation
    Kinds,          \* requests that may come
    MaxRequests,    \* bound: number of requests
    MaxRules,       \* bound: number of changes of the access list
    MaxCrashes,     \* bound: number of restarts
    None

HostTypes == {"proxy_host", "redirection_host", "dead_host", "stream"}
AllKinds == {"create", "update", "enable", "disable", "delete", "list", "unlist", "site"}

ASSUME HostAssumption ==
    /\ Typings \subseteq [Hosts -> HostTypes]
    /\ Rejected \subseteq Settings
    /\ Bodies \subseteq [set : Settings, acl : BOOLEAN, cert : BOOLEAN]
    /\ Existing \subseteq Hosts /\ Guarded \subseteq Existing /\ First \in [Hosts -> Settings]
    /\ Kinds \subseteq AllKinds
    /\ {MaxRequests, MaxRules, MaxCrashes} \subseteq Nat
    /\ None \notin Procs \cup Settings \cup AllKinds \cup [set : Settings, rules : Nat \cup {None}]
    \* nginx serves the hosts that exist at the start
    /\ \A h \in Existing : First[h] \notin Rejected
    /\ \A t \in Typings : \A g, h \in {x \in Existing : t[x] = "stream"} :
          g # h => Name[First[g]] # Name[First[h]]

VARIABLES
    type,           \* host -> its type, fixed
    row,            \* host -> its row in the database
    rules,          \* the access list's rules in the database (0: none)
    listed,         \* the access list is not deleted
    htpasswd,       \* the rules its password file was built from
    conf,           \* host -> <id>.conf, the live set nginx includes
    bak,            \* host -> <id>.conf.bak
    stash,          \* host -> <id>.conf.disabled
    site,           \* the default site's conf: None, "good" or "bad"
    running,        \* host -> the conf nginx has loaded
    lock,           \* who holds the configuration lock
    pc, loc,        \* each request: where it is, and what it has read
    requests, crashes,
    raced,          \* history: hosts two requests worked on at a time
    refused,        \* history: hosts with a save that failed before nginx.js recorded an outcome
    cut             \* history: hosts whose conf was being replaced at a restart

db == <<row, rules, listed>>
files == <<conf, bak, stash>>
history == <<raced, refused, cut>>
vars == <<type, db, htpasswd, files, site, running, lock, pc, loc, requests, crashes, history>>

Metas == {"unset", "ok", "kept", "off"}   \* nginx_online and nginx_err of the row
NoRow == [alive |-> "free", enabled |-> FALSE, set |-> None, acl |-> FALSE, meta |-> "unset"]
Open == None
Shell == [set |-> None, rules |-> Open]   \* a disabled host's template renders no server

Fresh(k, h, s, a, c) == [kind |-> k, host |-> h, set |-> s, acl |-> a, cert |-> c, issued |-> FALSE,
                         rules |-> 0, old |-> None, snap |-> << >>, had |-> {}, left |-> {}, bad |-> {}]
Idle == Fresh(None, None, None, FALSE, FALSE)
-----------------------------------------------------------------------------
(* Rendering and nginx -t *)

\* a row with its relations; a deleted access list is loaded as null, which renders "deny all"
Fetched(h) == [row |-> row[h], rules |-> IF listed THEN rules ELSE 0]

generateConfig(s) ==
    IF ~s.row.enabled THEN Shell
    ELSE [set |-> s.row.set, rules |-> IF s.row.acl THEN s.rules ELSE Open]

Serving(c) == c # None /\ c # Shell
Accepted(c) == Serving(c) => c.set \notin Rejected

\* nginx -t on a live set: every conf is accepted, no two streams listen on one port
test(c, s) ==
    /\ s # "bad"
    /\ \A h \in Hosts : Accepted(c[h])
    /\ \A g, h \in {x \in Hosts : type[x] = "stream" /\ Serving(c[x])} :
          g # h => Name[c[g].set] # Name[c[h].set]

reloadTested(c) == running' = IF test(c, site) THEN c ELSE running
-----------------------------------------------------------------------------
(* Requests *)

Live(h) == row[h].alive = "live"

\* assertHostnamesFree; streams have no names
NameFree(h, s) ==
    \/ type[h] = "stream"
    \/ \A g \in Hosts \ {h} : Live(g) /\ type[g] # "stream" => Name[row[g].set] # Name[s]

\* only proxy hosts have an access list; a stream's certificate has names no host here uses
Allowed(h, b) ==
    /\ NameFree(h, b.set)
    /\ b.acl => type[h] = "proxy_host" /\ listed
    /\ b.cert => type[h] # "stream"

\* the hosts a request works on
Touches(l) ==
    CASE l.kind = None -> {}
      [] l.cert \/ l.kind \in {"list", "unlist", "site"} -> Hosts
      [] OTHER -> {l.host}

Goto(p, l) == pc' = [pc EXCEPT ![p] = l]
Set(p, f, v) == loc' = [loc EXCEPT ![p][f] = v]
Done(p) == Goto(p, "idle") /\ loc' = [loc EXCEPT ![p] = Idle]
Keep == UNCHANGED <<type, requests, crashes>>
KeepFiles == UNCHANGED <<files, running, lock, site>>
KeepDb == UNCHANGED <<db, htpasswd>>
Told == UNCHANGED history
Refuse(p) == refused' = refused \cup Touches(loc[p]) /\ UNCHANGED <<raced, cut>>

Request(p, l, first) ==
    /\ pc[p] = "idle" /\ l.kind \in Kinds /\ requests < MaxRequests
    /\ requests' = requests + 1
    /\ loc' = [loc EXCEPT ![p] = l]
    /\ Goto(p, first)
    /\ raced' = raced \cup UNION {Touches(l) \cap Touches(loc[q]) : q \in Procs}
    /\ UNCHANGED <<type, crashes, refused, cut>> /\ KeepDb /\ KeepFiles

Create(p) ==
    \E h \in Hosts, b \in Bodies :
       /\ row[h].alive = "free" /\ \A q \in Procs : loc[q].host # h
       /\ Allowed(h, b)
       /\ Request(p, Fresh("create", h, b.set, b.acl, b.cert), "patch")

Update(p) ==
    \E h \in Hosts, b \in Bodies :
       /\ Live(h)
       /\ Allowed(h, b)
       /\ Request(p, Fresh("update", h, b.set, b.acl, b.cert), "get")

Change(p, k) == \E h \in Hosts : Live(h) /\ Request(p, Fresh(k, h, None, FALSE, FALSE), "get")
ListUpdate(p) ==
    \E n \in 1..MaxRules \ {rules} :
       listed /\ Request(p, [Fresh("list", None, None, FALSE, FALSE) EXCEPT !.rules = n], "list_clear")
ListDelete(p) == listed /\ Request(p, Fresh("unlist", None, None, FALSE, FALSE), "list_get")
SettingUpdate(p) ==
    \E v \in {"good", "bad"} : Request(p, Fresh("site", None, v, FALSE, FALSE), "site_delete")
-----------------------------------------------------------------------------
(* The handlers of a host: what they read and write in the database *)

Load(p, B) == Set(p, "snap", [h \in B |-> Fetched(h)])

Get(p) ==
    LET l == loc[p]  h == l.host IN
    /\ pc[p] = "get"
    /\ \/ /\ ~Live(h) \/ (l.kind = "enable" /\ row[h].enabled) \/ (l.kind = "disable" /\ ~row[h].enabled)
          /\ Done(p)
       \/ /\ Live(h) /\ (l.kind = "enable" => ~row[h].enabled) /\ (l.kind = "disable" => row[h].enabled)
          /\ loc' = [loc EXCEPT ![p].old = row[h], ![p].snap = [x \in {h} |-> Fetched(h)]]
          /\ Goto(p, IF l.cert THEN "cert_find" ELSE "patch")
    /\ Keep /\ KeepDb /\ KeepFiles /\ Told

\* cleanSslHstsData merges the sent fields into the row read earlier, and the whole of it is
\* written; is_deleted was left out of that row.  A stream's handler writes the sent fields only.
Merged(h, l) ==
    IF type[h] = "stream" THEN [row[h] EXCEPT !.set = l.set, !.acl = l.acl]
    ELSE [l.old EXCEPT !.set = l.set, !.acl = l.acl, !.alive = row[h].alive]

Patch(p) ==
    LET l == loc[p]  h == l.host IN
    /\ pc[p] = "patch"
    /\ \/ /\ l.kind = "create"
          /\ row' = [row EXCEPT ![h] = [alive |-> "live", enabled |-> TRUE, set |-> l.set,
                                       acl |-> l.acl, meta |-> "unset"]]
          /\ Goto(p, IF l.cert THEN "cert_find" ELSE "fetch") /\ UNCHANGED loc
       \/ /\ l.kind = "update"
          /\ row' = [row EXCEPT ![h] = Merged(h, l)]
          /\ Goto(p, "fetch") /\ UNCHANGED loc
       \/ /\ l.kind = "enable"
          /\ row' = [row EXCEPT ![h].enabled = TRUE]
          /\ loc' = [loc EXCEPT ![p].snap[h].row.enabled = TRUE]
          /\ Goto(p, "configure")
       \/ /\ l.kind = "disable"
          /\ row' = [row EXCEPT ![h].enabled = FALSE]
          /\ Goto(p, "delete") /\ UNCHANGED loc
       \/ /\ l.kind = "delete"
          /\ row' = [row EXCEPT ![h].alive = "gone"]
          /\ Goto(p, "delete") /\ UNCHANGED loc
    /\ UNCHANGED <<rules, listed, htpasswd>> /\ Keep /\ KeepFiles /\ Told

\* Fault injection: the conf is rendered from the row read before the save.
FetchOld(p) ==
    LET h == loc[p].host IN
    /\ pc[p] = "fetch"
    /\ IF ~Live(h) \/ (type[h] = "proxy_host" /\ ~row[h].enabled)
       THEN Done(p)
       ELSE /\ Set(p, "snap", [x \in {h} |-> [Fetched(h) EXCEPT !.row = IF loc[p].old = None THEN @ ELSE loc[p].old]])
            /\ Goto(p, "configure")
    /\ Keep /\ KeepDb /\ KeepFiles /\ Told

\* the row is read again with its relations; only a disabled proxy host is not configured
Fetch(p) ==
    LET h == loc[p].host IN
    /\ pc[p] = "fetch"
    /\ IF ~Live(h) \/ (type[h] = "proxy_host" /\ ~row[h].enabled)
       THEN Done(p)
       ELSE Load(p, {h}) /\ Goto(p, "configure")
    /\ Keep /\ KeepDb /\ KeepFiles /\ Told

Free == lock = None
Release == lock' = None
KeepSite == UNCHANGED site

deleteConfig(p) ==
    /\ pc[p] = "delete" /\ Free
    /\ conf' = [conf EXCEPT ![loc[p].host] = None]
    /\ Goto(p, "reload")
    /\ UNCHANGED <<bak, stash, running, lock, loc>> /\ KeepSite /\ Keep /\ KeepDb /\ Told

\* nginx -t, then the reload; a deleted access list's password file goes last
reload(p) ==
    /\ pc[p] = "reload" /\ Free
    /\ reloadTested(conf)
    /\ IF test(conf, site) THEN Told ELSE Refuse(p)
    /\ htpasswd' = IF loc[p].kind = "unlist" /\ test(conf, site) THEN 0 ELSE htpasswd
    /\ Done(p)
    /\ UNCHANGED <<files, lock, db>> /\ KeepSite /\ Keep
-----------------------------------------------------------------------------
(* configure: one holder of the lock from the first nginx -t to the reload *)

ConfigureTest(p) ==
    /\ pc[p] = "configure" /\ Free
    /\ IF test(conf, site)
       THEN lock' = p /\ Goto(p, "backup") /\ UNCHANGED loc /\ Told
       ELSE UNCHANGED lock /\ Done(p) /\ Refuse(p)
    /\ UNCHANGED <<files, running>> /\ KeepSite /\ Keep /\ KeepDb

Had(B) == {h \in B : conf[h] # None \/ stash[h] # None}
backupConfig(B) ==
    /\ bak' = [h \in Hosts |-> IF h \notin Had(B) THEN bak[h] ELSE IF conf[h] # None THEN conf[h] ELSE stash[h]]
    /\ stash' = [h \in Hosts |-> IF h \in B /\ conf[h] = None THEN None ELSE stash[h]]
dropConfigBackup(B) == bak' = [h \in Hosts |-> IF h \in B THEN None ELSE bak[h]]

ConfigureBackup(p) ==
    LET B == {loc[p].host} IN
    /\ pc[p] = "backup"
    /\ backupConfig(B)
    /\ Set(p, "had", Had(B))
    /\ Goto(p, "clear")
    /\ UNCHANGED <<conf, running, lock>> /\ KeepSite /\ Keep /\ KeepDb /\ Told

ConfigureDelete(p) ==
    LET h == loc[p].host IN
    /\ pc[p] = "clear"
    /\ conf' = [conf EXCEPT ![h] = None]
    /\ stash' = [stash EXCEPT ![h] = None]
    /\ Goto(p, "generate")
    /\ UNCHANGED <<bak, running, lock, loc>> /\ KeepSite /\ Keep /\ KeepDb /\ Told

ConfigureGenerate(p) ==
    LET h == loc[p].host IN
    /\ pc[p] = "generate"
    /\ conf' = [conf EXCEPT ![h] = generateConfig(loc[p].snap[h])]
    /\ Goto(p, "verify")
    /\ UNCHANGED <<bak, stash, running, lock, loc>> /\ KeepSite /\ Keep /\ KeepDb /\ Told

\* a refused conf makes room for the previous one, and the row's meta tells which is live
restoreConfigBackup(h, had) == [conf EXCEPT ![h] = IF had THEN bak[h] ELSE None]

\* rendering failed after the delete: the previous conf goes back and nothing is recorded
ConfigureRenderFails(p) ==
    LET h == loc[p].host IN
    /\ pc[p] = "generate"
    /\ conf' = restoreConfigBackup(h, h \in loc[p].had)
    /\ dropConfigBackup(loc[p].had)
    /\ Release /\ Done(p) /\ Refuse(p)
    /\ UNCHANGED <<stash, running>> /\ KeepSite /\ Keep /\ KeepDb

Outcome(had) == IF had THEN "kept" ELSE "off"

\* Fault injection: the refused conf stays in the live set.
ConfigureVerifyLeft(p) ==
    LET h == loc[p].host  had == h \in loc[p].had IN
    /\ pc[p] = "verify"
    /\ row' = [row EXCEPT ![h].meta = IF test(conf, site) THEN "ok" ELSE Outcome(had)]
    /\ dropConfigBackup({h})
    /\ Goto(p, "activate")
    /\ UNCHANGED <<conf, stash, running, lock, loc, rules, listed, htpasswd>> /\ KeepSite /\ Keep /\ Told

ConfigureVerify(p) ==
    LET h == loc[p].host  had == h \in loc[p].had IN
    /\ pc[p] = "verify"
    /\ IF test(conf, site)
       THEN /\ row' = [row EXCEPT ![h].meta = "ok"]
            /\ dropConfigBackup({h}) /\ UNCHANGED conf
       ELSE /\ conf' = restoreConfigBackup(h, had)
            /\ row' = [row EXCEPT ![h].meta = Outcome(had)]
            /\ dropConfigBackup(loc[p].had)
    /\ Goto(p, "activate")
    /\ UNCHANGED <<stash, running, lock, loc, rules, listed, htpasswd>> /\ KeepSite /\ Keep /\ Told

ConfigureReload(p) ==
    /\ pc[p] = "activate"
    /\ reloadTested(conf)
    /\ Release /\ Done(p)
    /\ UNCHANGED files /\ KeepSite /\ Keep /\ KeepDb /\ Told
-----------------------------------------------------------------------------
(* bulkGenerateConfigs: several hosts under one hold of the lock *)

Batch(p) == DOMAIN loc[p].snap
\* what follows the batch: the certificate request goes on, a list's handler reloads or fails
AfterBulk(p, ok) ==
    \/ loc[p].cert /\ Goto(p, "cert_done") /\ UNCHANGED loc
    \/ ~loc[p].cert /\ ok /\ Goto(p, "reload") /\ UNCHANGED loc
    \/ ~loc[p].cert /\ ~ok /\ Done(p)

putBack(p, B) == [h \in Hosts |-> IF h \notin B THEN conf[h] ELSE IF h \in loc[p].had THEN bak[h] ELSE None]

\* clearHostErrors and markHostsRejected
Marked(p, ok, bad) ==
    [h \in Hosts |-> IF h \in bad THEN [row[h] EXCEPT !.meta = Outcome(h \in loc[p].had)]
                     ELSE IF h \in ok /\ loc[p].snap[h].row.enabled /\ loc[p].snap[h].row.meta \in {"kept", "off"}
                          THEN [row[h] EXCEPT !.meta = "ok"]
                          ELSE row[h]]

BulkBackup(p) ==
    /\ pc[p] = "bulk" /\ Free
    /\ lock' = p
    /\ backupConfig(Batch(p))
    /\ Set(p, "had", Had(Batch(p)))
    /\ Goto(p, "bulk_generate")
    /\ UNCHANGED <<conf, running>> /\ KeepSite /\ Keep /\ KeepDb /\ Told

BulkGenerate(p) ==
    /\ pc[p] = "bulk_generate"
    /\ conf' = [h \in Hosts |-> IF h \in Batch(p) THEN generateConfig(loc[p].snap[h]) ELSE conf[h]]
    /\ Goto(p, "bulk_test")
    /\ UNCHANGED <<bak, stash, running, lock, loc>> /\ KeepSite /\ Keep /\ KeepDb /\ Told

\* the whole batch passes, or everything goes back and each host is tried alone
BulkTest(p) ==
    LET B == Batch(p)  back == putBack(p, B) IN
    /\ pc[p] = "bulk_test"
    /\ \/ /\ test(conf, site)
          /\ dropConfigBackup(loc[p].had)
          /\ row' = Marked(p, B, {})
          /\ Release /\ AfterBulk(p, TRUE) /\ Told /\ UNCHANGED conf
       \/ /\ ~test(conf, site) /\ test(back, site)
          /\ conf' = back
          /\ Set(p, "left", B) /\ Goto(p, "bulk_each")
          /\ UNCHANGED <<bak, row, lock>> /\ Told
       \/ /\ ~test(conf, site) /\ ~test(back, site)
          /\ conf' = back
          /\ dropConfigBackup(loc[p].had)
          /\ Release /\ AfterBulk(p, FALSE) /\ Refuse(p) /\ UNCHANGED row
    /\ UNCHANGED <<stash, running, rules, listed, htpasswd>> /\ KeepSite /\ Keep

BulkEach(p) ==
    /\ pc[p] = "bulk_each"
    /\ \E h \in loc[p].left :
          LET new == [conf EXCEPT ![h] = generateConfig(loc[p].snap[h])]
              ok == test(new, site)
          IN  /\ conf' = IF ok THEN new ELSE putBack(p, {h})
              /\ loc' = [loc EXCEPT ![p].left = @ \ {h}, ![p].bad = IF ok THEN @ ELSE @ \cup {h}]
              /\ Goto(p, IF loc[p].left = {h} THEN "bulk_end" ELSE "bulk_each")
    /\ UNCHANGED <<bak, stash, running, lock>> /\ KeepSite /\ Keep /\ KeepDb /\ Told

BulkEnd(p) ==
    LET bad == loc[p].bad IN
    /\ pc[p] = "bulk_end"
    /\ dropConfigBackup(loc[p].had)
    /\ row' = Marked(p, Batch(p) \ bad, bad)
    /\ IF bad # {} THEN reloadTested(conf) ELSE UNCHANGED running
    /\ Release /\ AfterBulk(p, bad = {})
    /\ UNCHANGED <<conf, stash, rules, listed, htpasswd>> /\ KeepSite /\ Keep /\ Told
-----------------------------------------------------------------------------
(* The access list *)

Users == {h \in Hosts : Live(h) /\ type[h] = "proxy_host" /\ row[h].acl}

\* users and client rules are deleted and inserted again one by one
ListClear(p) ==
    /\ pc[p] = "list_clear"
    /\ rules' = 0
    /\ Goto(p, "list_fill")
    /\ UNCHANGED <<row, listed, htpasswd, loc>> /\ Keep /\ KeepFiles /\ Told

ListFill(p) ==
    /\ pc[p] = "list_fill"
    /\ rules' = loc[p].rules
    /\ Goto(p, "list_fetch")
    /\ UNCHANGED <<row, listed, htpasswd, loc>> /\ Keep /\ KeepFiles /\ Told

ListFetch(p) ==
    /\ pc[p] = "list_fetch"
    /\ IF listed
       THEN /\ loc' = [loc EXCEPT ![p].rules = rules, ![p].snap = [h \in Users |-> Fetched(h)]]
            /\ Goto(p, "list_build")
       ELSE Done(p)
    /\ Keep /\ KeepDb /\ KeepFiles /\ Told

ListBuild(p) ==
    /\ pc[p] = "list_build"
    /\ htpasswd' = loc[p].rules
    /\ Goto(p, IF Batch(p) = {} THEN "reload" ELSE "bulk")
    /\ UNCHANGED <<db, loc>> /\ Keep /\ KeepFiles /\ Told

\* delete renders its copies of the hosts without the list
ListGet(p) ==
    /\ pc[p] = "list_get"
    /\ IF listed
       THEN /\ Set(p, "snap", [h \in Users |-> [Fetched(h) EXCEPT !.row.acl = FALSE]])
            /\ Goto(p, "list_drop")
       ELSE Done(p)
    /\ Keep /\ KeepDb /\ KeepFiles /\ Told

ListDrop(p) ==
    /\ pc[p] = "list_drop"
    /\ listed' = FALSE
    /\ Goto(p, "list_detach")
    /\ UNCHANGED <<row, rules, htpasswd, loc>> /\ Keep /\ KeepFiles /\ Told

ListDetach(p) ==
    /\ pc[p] = "list_detach"
    /\ row' = [h \in Hosts |-> [row[h] EXCEPT !.acl = FALSE]]
    /\ Goto(p, IF Batch(p) = {} THEN "reload" ELSE "bulk")
    /\ UNCHANGED <<rules, listed, htpasswd, loc>> /\ Keep /\ KeepFiles /\ Told
-----------------------------------------------------------------------------
(* A certificate requested along with the save, HTTP challenge: the hosts that *)
(* use its name are taken out of the live set and rendered again afterwards    *)

getHostsWithDomains(p) ==
    /\ pc[p] = "cert_find"
    /\ Load(p, {h \in Hosts : Live(h) /\ type[h] # "stream" /\ Name[row[h].set] = Name[loc[p].set]})
    /\ Goto(p, "cert_stash")
    /\ Keep /\ KeepDb /\ KeepFiles /\ Told

\* Fault injection: the confs are deleted, not stashed.
bulkDeleteConfigs(p) ==
    /\ pc[p] = "cert_stash" /\ Free
    /\ conf' = [h \in Hosts |-> IF h \in Batch(p) THEN None ELSE conf[h]]
    /\ Goto(p, "cert_request")
    /\ UNCHANGED <<bak, stash, running, lock, loc>> /\ KeepSite /\ Keep /\ KeepDb /\ Told

bulkStashConfigs(p) ==
    LET B == {h \in Batch(p) : conf[h] # None} IN
    /\ pc[p] = "cert_stash" /\ Free
    /\ stash' = [h \in Hosts |-> IF h \in B THEN conf[h] ELSE stash[h]]
    /\ conf' = [h \in Hosts |-> IF h \in B THEN None ELSE conf[h]]
    /\ Goto(p, "cert_request")
    /\ UNCHANGED <<bak, running, lock, loc>> /\ KeepSite /\ Keep /\ KeepDb /\ Told

\* the challenge conf, a reload, certbot; every failure goes on to the clean-up
requestLetsEncryptSsl(p) ==
    /\ pc[p] = "cert_request" /\ Free
    /\ reloadTested(conf)
    /\ \E ok \in BOOLEAN : (ok => test(conf, site)) /\ Set(p, "issued", ok)
    /\ Goto(p, IF Batch(p) = {} THEN "cert_done" ELSE "bulk")
    /\ UNCHANGED <<files, lock>> /\ KeepSite /\ Keep /\ KeepDb /\ Told

CertDone(p) ==
    /\ pc[p] = "cert_done" /\ Free
    /\ reloadTested(conf)
    /\ IF loc[p].issued
       THEN Goto(p, IF loc[p].kind = "create" THEN "fetch" ELSE "patch") /\ UNCHANGED loc
       ELSE Done(p)
    /\ UNCHANGED <<files, lock>> /\ KeepSite /\ Keep /\ KeepDb /\ Told
-----------------------------------------------------------------------------
(* The default site: every step takes the lock for itself *)

SiteWrite(p, at, value, next) ==
    /\ pc[p] = at /\ Free
    /\ site' = value
    /\ Goto(p, next)
    /\ UNCHANGED <<files, running, lock, loc>> /\ Keep /\ KeepDb /\ Told

SiteDelete(p) == SiteWrite(p, "site_delete", None, "site_generate")
SiteGenerate(p) == SiteWrite(p, "site_generate", loc[p].set, "site_reload")
SiteUndo(p) == SiteWrite(p, "site_undo", None, "reload")

SiteReload(p) ==
    /\ pc[p] = "site_reload" /\ Free
    /\ reloadTested(conf)
    /\ IF test(conf, site) THEN Done(p) ELSE Goto(p, "site_undo") /\ UNCHANGED loc
    /\ UNCHANGED <<files, lock>> /\ KeepSite /\ Keep /\ KeepDb /\ Told
-----------------------------------------------------------------------------
(* A restart of the backend alone, or of the machine: then nginx loads the live *)
(* set, if nginx -t accepts it                                                  *)

Restart ==
    /\ crashes < MaxCrashes
    /\ crashes' = crashes + 1
    /\ pc' = [p \in Procs |-> "idle"] /\ loc' = [p \in Procs |-> Idle]
    /\ Release
    /\ cut' = IF lock = None THEN cut ELSE cut \cup Batch(lock)
    /\ \/ /\ UNCHANGED running
          /\ refused' = refused \cup UNION {Touches(loc[p]) : p \in Procs}
       \/ /\ running' = IF test(conf, site) THEN conf ELSE [h \in Hosts |-> None]
          /\ refused' = IF test(conf, site) THEN refused \cup UNION {Touches(loc[p]) : p \in Procs} ELSE Hosts
    /\ UNCHANGED <<type, requests, raced, files>> /\ KeepSite /\ KeepDb

Init ==
    /\ type \in Typings
    /\ row = [h \in Hosts |-> IF h \notin Existing THEN NoRow
                              ELSE [alive |-> "live", enabled |-> TRUE, set |-> First[h],
                                    acl |-> h \in Guarded /\ type[h] = "proxy_host", meta |-> "ok"]]
    /\ rules = 1 /\ listed = TRUE /\ htpasswd = 1
    /\ conf = [h \in Hosts |-> IF Live(h) THEN generateConfig(Fetched(h)) ELSE None]
    /\ bak = [h \in Hosts |-> None] /\ stash = [h \in Hosts |-> None]
    /\ site = "good"
    /\ running = conf
    /\ lock = None
    /\ pc = [p \in Procs |-> "idle"] /\ loc = [p \in Procs |-> Idle]
    /\ requests = 0 /\ crashes = 0
    /\ raced = {} /\ refused = {} /\ cut = {}

Receive(p) ==
    \/ Create(p) \/ Update(p) \/ Change(p, "enable") \/ Change(p, "disable") \/ Change(p, "delete")
    \/ ListUpdate(p) \/ ListDelete(p) \/ SettingUpdate(p)

Step(p) ==
    \/ Get(p) \/ Patch(p) \/ Fetch(p) \/ deleteConfig(p) \/ reload(p)
    \/ ConfigureTest(p) \/ ConfigureBackup(p) \/ ConfigureDelete(p) \/ ConfigureGenerate(p)
    \/ ConfigureRenderFails(p) \/ ConfigureVerify(p) \/ ConfigureReload(p)
    \/ BulkBackup(p) \/ BulkGenerate(p) \/ BulkTest(p) \/ BulkEach(p) \/ BulkEnd(p)
    \/ ListClear(p) \/ ListFill(p) \/ ListFetch(p) \/ ListBuild(p)
    \/ ListGet(p) \/ ListDrop(p) \/ ListDetach(p)
    \/ getHostsWithDomains(p) \/ bulkStashConfigs(p) \/ requestLetsEncryptSsl(p) \/ CertDone(p)
    \/ SiteDelete(p) \/ SiteGenerate(p) \/ SiteReload(p) \/ SiteUndo(p)

Next == (\E p \in Procs : Receive(p) \/ Step(p)) \/ Restart

Spec == Init /\ [][Next]_vars
\* the lock's queue is a promise chain, nginx -t has a time limit, and certbot ends
FairSpec == Spec /\ \A p \in Procs : WF_vars(Step(p))
-----------------------------------------------------------------------------
(* Properties *)

Confs == {None, Shell} \cup [set : Settings, rules : 0..MaxRules \cup {Open}]

\* Rows, files and the lock have the shapes nginx.js and the handlers give them.
TypeOK ==
    /\ \A h \in Hosts : /\ row[h].alive \in {"free", "live", "gone"} /\ row[h].meta \in Metas
                        /\ {row[h].enabled, row[h].acl} \subseteq BOOLEAN
                        /\ {conf[h], bak[h], stash[h], running[h]} \subseteq Confs
    /\ rules \in 0..MaxRules /\ htpasswd \in 0..MaxRules
    /\ site \in {None, "good", "bad"}
    /\ lock \in Procs \cup {None}
    /\ lock # None => pc[lock] \in {"backup", "clear", "generate", "verify", "activate",
                                    "bulk_generate", "bulk_test", "bulk_each", "bulk_end"}

\* Whenever nobody holds the lock, what nginx would load at its next start passes
\* nginx -t, the default site in its own test window and hosts cut short by a
\* restart aside: a refused save leaves no refused conf behind, for any overlap of
\* requests (withConfigLock, configure, bulkGenerateConfigs in nginx.js).
LiveSetValid ==
    Free => test([h \in Hosts |-> IF h \in cut THEN None ELSE conf[h]], "good")

\* a host no request works on, and none of whose saves raced, failed or was cut short
Settled(h) == h \notin raced \cup refused \cup cut /\ \A p \in Procs : h \notin Touches(loc[p])

\* The row says what nginx serves.  Of an enabled host nginx_online and nginx_err do:
\* without an error the saved settings and the access list's current rules, with
\* "previous config is still active" some earlier conf, offline nothing (configure and
\* markHostsRejected).  A disabled or deleted host is not served, whatever is saved for
\* other hosts and whatever certificate is issued (disable, delete in proxy-host.js).
MetaTruthful ==
    \A h \in Hosts : Settled(h) =>
       IF Live(h) /\ row[h].enabled
       THEN CASE row[h].meta = "ok" -> running[h] = generateConfig(Fetched(h))
              [] row[h].meta = "kept" -> running[h] # None
              [] row[h].meta = "off" -> ~Serving(running[h])
              [] OTHER -> TRUE
       ELSE ~Serving(running[h])

\* "The previous conf is live again - the host stays online" (configure in nginx.js):
\* when a refused save is recorded so, nginx serves the host.
KeptIsServed ==
    \A h \in Hosts : Settled(h) /\ Live(h) /\ row[h].enabled /\ row[h].meta = "kept" => Serving(running[h])

\* A working conf is never lost: a host without an error in its row, and none of whose
\* saves raced, failed or was cut short, has an accepted conf on disk, live, as .bak or
\* as .disabled, at every moment of every save, so at the moment a restart cuts one short
\* too (backupConfig, stashConfig, restoreConfigBackup).
Recoverable ==
    \A h \in Hosts :
       h \notin raced \cup refused /\ Live(h) /\ row[h].enabled /\ row[h].meta = "ok" =>
          \/ \E c \in {conf[h], bak[h], stash[h]} : Serving(c) /\ Accepted(c)
          \/ \E p \in Procs : h = loc[p].host /\ loc[p].kind = "enable"

\* What overlapping requests break, checked with other constants only: the settings
\* saved last are served, and no two hosts have one name (assertHostnamesFree).
LastSaveServed ==
    (\A p \in Procs : pc[p] = "idle") =>
       \A h \in Hosts \ (refused \cup cut) :
          Live(h) /\ row[h].enabled /\ row[h].meta = "ok" => running[h] = generateConfig(Fetched(h))
StaysStopped ==
    (\A p \in Procs : pc[p] = "idle") =>
       \A h \in Hosts \ (refused \cup cut) : Serving(running[h]) => Live(h) /\ row[h].enabled
NamesUnique ==
    \A g, h \in {x \in Hosts : Live(x) /\ type[x] # "stream"} : g # h => Name[row[g].set] # Name[row[h].set]

\* Every request ends: no failure keeps the lock (withConfigLock passes it on whether
\* or not the holder failed).
RequestsEnd == \A p \in Procs : pc[p] # "idle" ~> pc[p] = "idle"
=============================================================================
