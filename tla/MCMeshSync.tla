------------------------------ MODULE MCMeshSync ------------------------------
(* Small meshes for TLC: two sites and a peer that may be created. *)
EXTENDS MeshSync

CONSTANTS k1, k2, k3, n1, n2, n3, a1, a2, p1, p2

Change(name, nets) == [name |-> name, nets |-> nets]
Only(l, c) == [x \in {l} |-> c]
Both(c, d) == [x \in {k1, k2} |-> IF x = k1 THEN c ELSE d]
Row(link, acl, text) ==
    [link |-> link, acl |-> acl, allowed |-> None, text |-> text, gone |-> FALSE]
Update(a, link, acl, allowed) == [agent |-> a, link |-> link, acl |-> acl, allowed |-> allowed]

MCStore == [l \in Links |-> CASE l = k1 -> Change("A", {n1})
                              [] l = k2 -> Change("B", {n2})
                              [] OTHER -> None]
\* a1 has its configuration, a2 has registered and not uploaded one yet
MCRows == [a \in Agents |-> IF a = a1 THEN Row("A", None, {n2}) ELSE Row("B", {"A"}, None)]

MCPatches ==
    [k \in {"put", "apply", "peer", "restore"} |->
        CASE k = "put" -> {Both(Change("B", Keep), Change("A", Keep)),
                            Only(k2, Change("C", Keep))}
          [] k = "apply" -> {Only(k2, Change(Keep, {n2, n3}))}
          [] k = "peer" -> {Only(k1, Change(Keep, {}))}
          [] k = "restore" -> {Both(Change(Keep, {n1}), Change(Keep, {n2}))}]
MCNews == {Change("C", {n3})}
\* a1 is restricted (the networks win over the site) or goes to the other link; a2 is
\* unbound
MCUpdates == {Update(a1, Keep, {"C"}, {n3}), Update(a1, "B", Keep, Keep),
              Update(a2, None, Keep, Keep)}
MCDeletes == {[link |-> k1, cascade |-> TRUE], [link |-> k2, cascade |-> FALSE]}
MCUploads == {{n1, n3}}
=============================================================================
