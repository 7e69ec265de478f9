--------------------------- MODULE MCLeaseJournal ---------------------------
(* Small instance of LeaseJournal.  (RequiredSamples - 1) * SampleMin is   *)
(* below BaselineTime, as in the code (60 * 0.9 s < 60 s), so a window can *)
(* have enough samples and still be too short.                             *)
EXTENDS LeaseJournal
=============================================================================
