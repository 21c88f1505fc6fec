--------------------------- MODULE MCGatewayConfig ---------------------------
(* A hand-written conf (0) and the hub's configurations 1 to 4; 2 and 3 differ *)
(* in their endpoint only, so their hooks are the same text; 4 returns to the  *)
(* hooks of 1.                                                                 *)
EXTENDS GatewayConfig

MCRules == [c \in Configs |-> CASE c = 0 -> {"own"}
                                [] c \in {1, 4} -> {"forward", "nat1"}
                                [] OTHER -> {"forward", "nat2", "return"}]
MCNets == [c \in Configs |-> CASE c = 0 -> {"lan"}
                               [] c \in {1, 4} -> {"lan", "site1"}
                               [] OTHER -> {"site2"}]
MCDeduped == {"forward", "nat1", "nat2"}
=============================================================================
