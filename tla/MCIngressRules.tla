--------------------------- MODULE MCIngressRules ---------------------------
(***************************************************************************)
(* IngressRules for TLC.  Administrators and rules are interchangeable: the *)
(* specification and the invariants only compare them for equality.        *)
(***************************************************************************)
EXTENDS IngressRules, TLC

Symmetry == Permutations(Admins) \cup Permutations(RuleIds)
=============================================================================
