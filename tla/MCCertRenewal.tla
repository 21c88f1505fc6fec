--------------------------- MODULE MCCertRenewal ---------------------------
(* Instances of CertRenewal for TLC. *)
EXTENDS CertRenewal

CONSTANTS c1, c2, c3

\* A user renews or deletes the second certificate, or requests a third one.
OperationsApart == {<< "renew", c2 >>, << "delete", c2 >>, << "create", c3 >>}
\* A user renews the first one, too.
RenewFirst == {<< "renew", c1 >>}
=============================================================================
