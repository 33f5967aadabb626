--------------------------- MODULE MCCertWatched ----------------------------
(* The small instance of MCCertManager for the watched specification.       *)
EXTENDS MCCertManager, CertWatched
=============================================================================
