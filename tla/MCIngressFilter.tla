--------------------------- MODULE MCIngressFilter ---------------------------
(* IngressFilter for TLC: the constants of the runs are in the cfgs. *)
EXTENDS IngressFilter
=============================================================================
