-------------------------- MODULE MCTrialSupervised --------------------------
(* TLC instances of the supervised trial; the constants are in the .cfg files *)
EXTENDS TrialSupervised

=============================================================================
