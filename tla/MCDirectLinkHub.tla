-------------------------- MODULE MCDirectLinkHub --------------------------
(* Instances of DirectLinkHub for TLC: a link between g1 and g2 that may     *)
(* move to g3, and a second one.                                             *)
EXTENDS DirectLinkHub

CONSTANTS g1, g2, g3, n1, p1

D(a, b, n, on) == [a |-> a, b |-> b, net |-> n, port |-> p1, enabled |-> on,
                   nat |-> {"b"}]

MCDrafts == {D(g2, g3, n1, FALSE)}
MCStored == <<D(g1, g2, n1, TRUE)>>
MCBodies == {[fields |-> [enabled |-> FALSE], reset |-> FALSE],
             [fields |-> [a |-> g3], reset |-> FALSE],
             [fields |-> [enabled |-> TRUE], reset |-> TRUE]}
Calm   == [apart |-> {}, nets |-> {}, restricted |-> {}]
Apart1 == [Calm EXCEPT !.apart = {{g1, g2}}]
Overlap == [Calm EXCEPT !.nets = {n1}]
Shares == [Calm EXCEPT !.restricted = {g1}]
MCMeshes == {Apart1, Overlap, Shares}
=============================================================================
