----------------------------- MODULE MCTrialRuns -----------------------------
(* TLC instances of the write trial; the constants are in the .cfg files *)
EXTENDS TrialRuns

=============================================================================
