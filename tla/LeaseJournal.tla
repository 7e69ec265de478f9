---------------------------- MODULE LeaseJournal ----------------------------
(***************************************************************************)
(* The control lease and the persistent intent journal under any order of  *)
(* calls, with a process that may die and a machine that may lose power at *)
(* every point between two calls.  One action per entry point; the         *)
(* arguments a caller supplies (a reading, an owner, the intent it read)   *)
(* and the faults a system call may meet are chosen by \E.                 *)
(*                                                                         *)
(* `marker` is the marker file as processes see it, `disk` the directory   *)
(* entry and contents a reboot is sure to find.  `exposed` and `quiet` are *)
(* history variables; no action reads them.                                *)
(***************************************************************************)
EXTENDS IntentJournal

VARIABLES
  lease,    \* the reducer's record, in the memory of the current process
  now,      \* CLOCK_MONOTONIC_RAW
  marker,   \* control-intent-v1 as seen through the file system
  disk,     \* control-intent-v1 as it is on the medium
  exposed,  \* history: a write may have reached the fans under this marker
  quiet     \* history: the uninterrupted run of system readings, see Saw

vars == <<lease, now, marker, disk, exposed, quiet>>

-----------------------------------------------------------------------------
(* The history variable quiet: how many system readings in a row the       *)
(* lease was shown, when the first and when the last was taken.  Anything  *)
(* that may have disturbed the fans, any other reading, any gap and any    *)
(* loss of memory starts it anew.                                          *)

Evidence == [n : Nat, from : Time, last : Time]

NoEvidence == [n |-> 0, from |-> 0, last |-> 0]

FirstSeen(r) ==
  IF smc_baseline_is_system(r) THEN [n |-> 1, from |-> now, last |-> now]
  ELSE NoEvidence

Saw(r) ==
  IF smc_baseline_is_system(r) /\ quiet.n > 0 /\ now > quiet.last
       /\ now - quiet.last <= SampleMax
    THEN [n |-> quiet.n + 1, from |-> quiet.from, last |-> now]
  ELSE FirstSeen(r)

QuietWindow ==
  quiet.n >= RequiredSamples /\ quiet.last - quiet.from >= BaselineTime

-----------------------------------------------------------------------------
Init ==
  /\ lease = ZeroLease
  /\ now = 0
  /\ marker \in Markers
  /\ disk = marker
  /\ exposed = FALSE
  /\ quiet = NoEvidence

Advance ==
  /\ now < MaxTime
  /\ now' = now + 1
  /\ UNCHANGED <<lease, marker, disk, exposed, quiet>>

Start(intent, r) ==
  /\ lease' = control_lease_start(intent, r, now)
  /\ quiet' = IF lease'.state = "observing" THEN FirstSeen(r) ELSE NoEvidence
  /\ UNCHANGED <<now, marker, disk, exposed>>

\* The first reading of a window goes to Start or RecoveryStarted, so a zeroed
\* lease is never sampled (accept_observation).
Sample(r) ==
  /\ lease # ZeroLease
  /\ lease' = control_lease_sample(lease, r, now)
  /\ quiet' = IF observing(lease) THEN Saw(r) ELSE quiet
  /\ UNCHANGED <<now, marker, disk, exposed>>

Claim(owner, restore_protocol_verified, intent, r) ==
  /\ lease' = control_lease_claim(lease, owner, now, restore_protocol_verified, intent, r)
  /\ UNCHANGED <<now, marker, disk, exposed, quiet>>

\* control_intent_mark_pending and control_lease_mark_write_pending, as run_owned
\* calls them; out is what the file system made of the marker.
MarkPending(intent, out) ==
  /\ lease' = intent_marked(lease, out, now)
  /\ marker' = out.marker /\ disk' = out.disk
  /\ quiet' = IF marker' # marker THEN NoEvidence ELSE quiet
  /\ UNCHANGED <<now, exposed>>

\* The operation itself: while its lease is live and marked, its owner may write.
Write ==
  /\ lease.state = "held" /\ lease.write_pending /\ now < lease.expires_at
  /\ exposed' = TRUE
  /\ quiet' = NoEvidence
  /\ UNCHANGED <<lease, now, marker, disk>>

Renew(owner, intent, r) ==
  /\ lease' = control_lease_renew(lease, owner, now, intent, r)
  /\ UNCHANGED <<now, marker, disk, exposed, quiet>>

OwnerLost(owner) ==
  /\ lease' = control_lease_owner_lost(lease, owner)
  /\ UNCHANGED <<now, marker, disk, exposed, quiet>>

Tick ==
  /\ lease' = control_lease_tick(lease, now)
  /\ UNCHANGED <<now, marker, disk, exposed, quiet>>

Sleep ==
  /\ lease' = control_lease_sleep(lease)
  /\ quiet' = NoEvidence
  /\ UNCHANGED <<now, marker, disk, exposed>>

RecoveryStarted(r) ==
  /\ lease' = control_lease_recovery_started(lease, r, now)
  /\ quiet' = IF lease.state = "recovery_required" THEN FirstSeen(r) ELSE quiet
  /\ UNCHANGED <<now, marker, disk, exposed>>

\* control_intent_clear_verified: the proof is consumed before the unlink, and
\* the unlink may succeed although the directory cannot be synchronised.
ClearVerified(intent, unlinked, synced) ==
  IF intent = "pending" /\ takeRecoveryProofAccepted(lease)
    THEN /\ lease' = control_lease_take_recovery_proof(lease)
         /\ marker' = IF unlinked THEN "absent" ELSE marker
         /\ disk' = IF unlinked /\ synced THEN "absent" ELSE disk
         /\ exposed' = IF unlinked THEN FALSE ELSE exposed
         /\ quiet' = IF unlinked THEN NoEvidence ELSE quiet
         /\ UNCHANGED now
    ELSE UNCHANGED vars

\* The process that holds the lease dies; the files stay.
Restart ==
  /\ lease' = ZeroLease
  /\ quiet' = NoEvidence
  /\ UNCHANGED <<now, marker, disk, exposed>>

\* The machine loses power; its clock starts again.
PowerLoss ==
  /\ lease' = ZeroLease
  /\ now' = 0
  /\ marker' \in AfterPowerLoss(marker, disk)
  /\ disk' = marker'
  /\ quiet' = NoEvidence
  /\ UNCHANGED exposed

Next ==
  \/ Advance \/ Write \/ Tick \/ Sleep \/ Restart \/ PowerLoss
  \/ \E r \in Readings : Sample(r) \/ RecoveryStarted(r)
  \/ \E intent \in control_intent_read(marker) :
       \/ \E r \in Readings : Start(intent, r)
       \/ \E out \in control_intent_mark_pending(lease, intent, marker, disk) :
            MarkPending(intent, out)
       \/ \E unlinked, synced \in BOOLEAN : ClearVerified(intent, unlinked, synced)
       \/ \E owner \in Owners, r \in Readings :
            \/ Renew(owner, intent, r)
            \/ \E verified \in BOOLEAN : Claim(owner, verified, intent, r)
  \/ \E owner \in Owners : OwnerLost(owner)

Spec == Init /\ [][Next]_vars

-----------------------------------------------------------------------------
(* Properties.                                                             *)

\* The type invariant: no sequence of calls leaves the range of a field, the
\* 64-bit range of expires_at_ns included (control_lease_claim and _renew).
TypeOK ==
  /\ lease \in Lease
  /\ now \in Time
  /\ marker \in Markers
  /\ disk \in Markers
  /\ exposed \in BOOLEAN
  /\ quiet \in Evidence

\* An operation that may have reached the fans is covered by a marker that a
\* reboot finds: neither a refused fsync, nor a crash, nor a power loss at any
\* point of mark_pending, run or clear_verified leaves touched fans unmarked.
ExposedIsDurable == exposed => marker = "pending" /\ disk = "pending"

\* An owner exists exactly while the lease is held, and a held lease ends LeaseTTL
\* after its last accepted reading: claim and renew never let expires_at_ns wrap,
\* and every way out of HELD drops owner and deadline together.
HeldIsBounded ==
  /\ lease.state = "held" <=> lease.owner # 0
  /\ lease.state = "held" => /\ lease.expires_at = lease.last_sample + LeaseTTL
                             /\ lease.expires_at <= MaxTime
  /\ lease.state # "held" => lease.expires_at = 0

\* The marker leaves the journal only after RequiredSamples system readings in a
\* row over BaselineTime, all taken since the marker was made, since the last
\* write, in one process life and without a sleep: a startup window, an older
\* proof or an interrupted recovery never clears it (clear_verified).  The one
\* exception is a power loss before the marker was ever synchronised.
ClearedOnlyByFreshWindow ==
  [][marker = "pending" /\ marker' = "absent" =>
       QuietWindow \/ (disk # "pending" /\ PowerLoss)]_vars

\* The lease and the journal implement the abstract intent protocol.
Protocol == INSTANCE IntentProtocol WITH
  armed <- marker # "absent", exposed <- exposed, good <- QuietWindow

\* Every step of lease, journal, crash and power loss is a step of the abstract
\* protocol: exposure only under a marker, disarming only after verification.
ImplementsProtocol == Protocol!ProtocolSpec
=============================================================================
