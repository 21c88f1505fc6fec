---------------------------- MODULE MCDirectLink ----------------------------
(* DirectLink for TLC: from c1 the hub can go to a config with another       *)
(* network behind the same interface (c2) and to another interface (c3).     *)
EXTENDS DirectLink

CONSTANTS n1, n2

c1 == [head |-> "h1", nets |-> {n1}]
c2 == [head |-> "h1", nets |-> {n1, n2}]
c3 == [head |-> "h2", nets |-> {n1}]
MCConfigs == {c1, c2, c3}
MCLans == {{}, {n1}}
=============================================================================
