-------------------------- MODULE MCSiteIsolation --------------------------
(* Instances of SiteIsolation for TLC: three links, each with one IPv4       *)
(* network, a second (IPv6) network and a tunnel address.                    *)
EXTENDS SiteIsolation, TLC

CONSTANTS l1, l2, l3, n1, n2, n3, m1, m2, m3, t1, t2, t3

MCLinks == {l1, l2, l3}
MCAddrs == {n1, n2, n3, m1, m2, m3, t1, t2, t3}
MCCovered == {n1, n2, n3, t1, t2, t3}

(* l1: metadata may lack type and networks (both then come from the peer's   *)
(* AllowedIPs); l2 and l3: complete metadata.                                *)
Bare  == [type |-> "none", nets |-> {}]
Site2 == [type |-> "site", nets |-> {n2, m2}]
Site3 == [type |-> "site", nets |-> {n3}]
P1 == [nets |-> {n1, m1}, tun |-> {t1}]
P2 == [nets |-> {n2, m2}, tun |-> {t2}]
P3 == [nets |-> {n3}, tun |-> {t3}]

\* safety: l1 is inferred, l3 may vanish and come back
SafetyEntries == (l1 :> {Bare}) @@ (l2 :> {Site2}) @@ (l3 :> {Site3, None})
SafetyPeers   == (l1 :> {P1}) @@ (l2 :> {P2}) @@ (l3 :> {P3, None})
SafetyBodies  == {{{l1, l2}}, {{l1, l2}, {l2, l3}}}
SafetyOutages == {{}, {l1, l2, l3}}

\* liveness: two links and one pair
LiveLinks == {l1, l2}
LiveEntries == (l1 :> {Bare, None}) @@ (l2 :> {Site2})
LivePeers   == (l1 :> {P1, None}) @@ (l2 :> {P2})
LiveBodies  == {{}, {{l1, l2}}}
LiveOutages == {{}, {l1, l2}}

\* outages only: nothing about the links ever changes; l1 has no metadata
StillEntries == (l1 :> {None}) @@ (l2 :> {Site2}) @@ (l3 :> {Site3})
StillPeers   == (l1 :> {P1}) @@ (l2 :> {P2}) @@ (l3 :> {P3})
StillBodies  == {{{l1, l2}, {l2, l3}}}

\* restart while WireGuard is down: two sites with complete metadata
ColdLinks   == {l2, l3}
ColdEntries == (l2 :> {Site2}) @@ (l3 :> {Site3})
ColdPeers   == (l2 :> {P2}) @@ (l3 :> {P3})
ColdBodies  == {{{l2, l3}}}
ColdOutages == {{}, {l2, l3}}
=============================================================================
