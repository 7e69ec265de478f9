--------------------------- MODULE IntentJournal ---------------------------
(***************************************************************************)
(* The persistent intent journal, ControlIntentJournal.c: what its calls   *)
(* may find in, and leave of, the marker file control-intent-v1.  A file   *)
(* has two values: `marker`, what processes see, and `disk`, what a reboot *)
(* is sure to find.                                                        *)
(***************************************************************************)
EXTENDS ControlLease

Markers == {"absent", "pending", "malformed"}

\* What control_intent_read may return: a marker that exists and is not exactly
\* the expected private file, or a file that cannot be read, is "unknown".
control_intent_read(marker) ==
  {"unknown"} \cup (CASE marker = "absent"  -> {"clear"}
                      [] marker = "pending" -> {"pending"}
                      [] OTHER              -> {})

\* Mutant: the result of fsync on the directory is ignored.
MarkPendingOutcomes_without_directory(marker, disk) ==
  {[marker |-> marker, disk |-> disk, durable |-> FALSE]}
  \cup [marker : {"pending"}, disk : {disk, "pending"}, durable : {TRUE}]

\* What creating the marker may leave behind: nothing (open failed), a torn
\* file, a complete file of which some fsync failed, or a durable marker.
MarkPendingOutcomes(marker, disk) ==
  {[marker |-> marker, disk |-> disk, durable |-> FALSE]}
  \cup [marker : {"malformed"}, disk : {disk, "malformed"}, durable : {FALSE}]
  \cup [marker : {"pending"}, disk : {disk, "malformed", "pending"}, durable : {FALSE}]
  \cup {[marker |-> "pending", disk |-> "pending", durable |-> TRUE]}

\* control_intent_mark_pending: the O_EXCL creation needs a prepared lease and
\* an absent marker; on an error the marker is retained as it is.
control_intent_mark_pending(lease, intent, marker, disk) ==
  IF preparePersistentIntentAccepted(lease) /\ intent = "clear"
    THEN MarkPendingOutcomes(marker, disk)
    ELSE {[marker |-> marker, disk |-> disk, durable |-> FALSE]}

\* What a power loss may leave: of what was not synchronised either version, or
\* a file without its contents.
AfterPowerLoss(marker, disk) ==
  {disk, marker} \cup (IF disk = marker THEN {} ELSE {"malformed"})

-----------------------------------------------------------------------------
(* run_owned marks the journal, then the lease, and gives the lease up     *)
(* when either refuses.                                                    *)

intentAccepted(l, out, now) ==
  out.durable /\ markWritePendingAccepted(control_lease_prepare_persistent_intent(l),
                                          l.owner, now, "pending")

intent_marked(l, out, now) ==
  LET prepared == control_lease_prepare_persistent_intent(l)
      marked   == control_lease_mark_write_pending(prepared, l.owner, now, "pending")
  IN  IF intentAccepted(l, out, now) THEN marked
      ELSE control_lease_owner_lost(IF out.durable THEN marked ELSE prepared, l.owner)
=============================================================================
